---- MODULE Spec2Model ----
(***************************************************************************)
(* Identity-provider bootstrap (setup_auth0.py) and verifier               *)
(* (verify_auth0.py): the retrying management client, the three ensure_*   *)
(* reconcilers, the bootstrap main(), the secret sink and the read-only    *)
(* verifier, as state machines over one remote tenant; and the token cache *)
(* of the E2E fixtures (conftest.py).                                      *)
(*                                                                         *)
(* Specifications:                                                         *)
(*   SpecRequest  one call of Auth0Mgmt._request, attempt by attempt.      *)
(*   SpecEnsure   one caller invoking the ensure_* operations one after    *)
(*                another, each with a desired specification of its own.   *)
(*   Spec         concurrent bootstrap runs (main), interleaved request   *)
(*                by request over one tenant.                              *)
(*   SpecVerify   one bootstrap run, a verifier run and edits by hand.     *)
(*   SpecChecks   a verifier run over tenants of every scope list.         *)
(*   SpecEnv      both scripts started in every environment.               *)
(*   SpecResume   bootstrap runs one after another, any of them cut short. *)
(*   SpecFind     ensure_m2m_client over long client listings.             *)
(*   SpecLookup   the reconciler's and the verifier's client lookups.      *)
(*   SpecPrompt   the bootstrap with and without --yes.                    *)
(*   SpecToken    conftest.py: the token cache of the E2E fixtures.        *)
(***************************************************************************)
EXTENDS Integers, Sequences, FiniteSets, TLC

VARIABLES
    rq,        \* the _request call in progress (SpecRequest)
    tenant,    \* remote state: resource servers, clients, client grants
    pc,        \* per process: position in main() / in the ensure_* operation
    loc,       \* per process: local variables of main() and of the operation
    sink,      \* invocations of sync_secrets_to_doppler, in order
    ver,       \* the verifier process: position, results, exit code
    hist       \* history: what the checks below need to remember

vars == <<rq, tenant, pc, loc, sink, ver, hist>>

None == "None"

(***************************************************************************)
(* Auth0Mgmt._request                                                      *)
(***************************************************************************)

\* setup_auth0.py:130
max_attempts == 6

\* A wider retry set: 409 Conflict retried like a server error.
retryable_statuses_wide == {409, 429, 500, 502, 503, 504}

\* setup_auth0.py:131
retryable_statuses == {429, 500, 502, 503, 504}

\* setup_auth0.py:132, in tenths of a second (0.8 s)
base_sleep == 8

\* The statuses a management API answer carries in the model: two successes,
\* the retryable set and four error statuses outside it.
Statuses == {200, 204, 400, 401, 404, 409} \cup retryable_statuses

\* Retry-After header values: absent, delay-seconds (RFC 7231 1*DIGIT) or an
\* HTTP-date, which float() rejects.
RetryAfterHeaders == {None, "2", "30", "Wed, 21 Oct 2015 07:28:00 GMT"}

\* float(retry_after), in tenths of a second; ValueError for a non-number.
ParseFloat(s) ==
    CASE s = "2" -> [ok |-> TRUE, value |-> 20]
      [] s = "30" -> [ok |-> TRUE, value |-> 300]
      [] OTHER -> [ok |-> FALSE, value |-> 0]

\* What one self._client.request(...) can end in.
Outcomes ==
    {[kind |-> "transport", status |-> 0, retry_after |-> None]}
    \cup [kind : {"response"}, status : Statuses, retry_after : RetryAfterHeaders]

\* httpx.Response.raise_for_status: raises for every non-2xx status.
RaisesForStatus(status) == ~(status \in 200..299)

IsRetryable(o) ==
    \/ o.kind = "transport"
    \/ o.kind = "response" /\ o.status \in retryable_statuses

\* 2 to the n.
RECURSIVE Pow2(_)
Pow2(n) == IF n = 0 THEN 1 ELSE 2 * Pow2(n - 1)

\* The backoff the comment at line 144 speaks of: exponential.
SleepFor_exponential(attempt, o) ==
    LET computed == base_sleep * Pow2(attempt - 1)
    IN  IF o.retry_after # None /\ o.retry_after # ""
        THEN LET f == ParseFloat(o.retry_after)
             IN  IF f.ok THEN f.value ELSE computed
        ELSE computed

\* The sleep after a retryable response of attempt `attempt`.
SleepFor(attempt, o) ==
    LET computed == base_sleep * attempt
    IN  IF o.retry_after # None /\ o.retry_after # ""
        THEN LET f == ParseFloat(o.retry_after)
             IN  IF f.ok THEN f.value ELSE computed
        ELSE computed

\* A return that parses the body of every success.
response_value_always_json(status) == "json"

\* return None if resp.status_code == 204 else resp.json()
response_value(status) == IF status = 204 THEN None ELSE "json"

\* Off by one: gives up on the attempt before the last.
LastAttemptEarly(attempt) == attempt = max_attempts - 1

\* Whether the except branch / the retryable branch gives up at this attempt.
LastAttempt(attempt) == attempt = max_attempts

NoOutcome == [kind |-> "none", status |-> 0, retry_after |-> None]

RqIdle ==
    [pc |-> "idle", attempt |-> 0, attempts |-> 0, sleeps |-> <<>>,
     last |-> NoOutcome, allRetryable |-> TRUE, value |-> "unset",
     error |-> NoOutcome, raisedAt |-> 0]

\* Entering the for loop of _request: attempt = 1.
RequestCall ==
    /\ rq.pc = "idle"
    /\ rq' = [rq EXCEPT !.pc = "attempt", !.attempt = 1]
    /\ UNCHANGED <<tenant, pc, loc, sink, ver, hist>>

\* One iteration of the for loop, its request ending in outcome o.
\* rq.attempts counts the requests sent, rq.sleeps lists the sleeps made.
RequestIteration(o) ==
    LET seen == [rq EXCEPT !.attempts = @ + 1, !.last = o,
                           !.allRetryable = @ /\ IsRetryable(o)]
        raise == [seen EXCEPT !.pc = "raised", !.error = o,
                              !.raisedAt = rq.attempt]
        again(s) == [seen EXCEPT !.sleeps = Append(@, s),
                                 !.attempt = @ + 1]
    IN  IF o.kind = "transport"
        THEN IF LastAttempt(rq.attempt) THEN raise
             ELSE again(base_sleep * rq.attempt)
        ELSE IF o.status \in retryable_statuses
        THEN IF LastAttempt(rq.attempt) /\ RaisesForStatus(o.status) THEN raise
             ELSE again(SleepFor(rq.attempt, o))
        ELSE IF RaisesForStatus(o.status) THEN raise
        ELSE [seen EXCEPT !.pc = "returned",
                          !.value = response_value(o.status)]

RequestAttempt ==
    /\ rq.pc = "attempt"
    /\ rq.attempt <= max_attempts
    /\ \E o \in Outcomes : rq' = RequestIteration(o)
    /\ UNCHANGED <<tenant, pc, loc, sink, ver, hist>>

\* The statement after the loop (line 159), reached only if the loop runs out.
RequestFallThrough ==
    /\ rq.pc = "attempt"
    /\ rq.attempt > max_attempts
    /\ rq' = [rq EXCEPT !.pc = "raised", !.value = "RuntimeError"]
    /\ UNCHANGED <<tenant, pc, loc, sink, ver, hist>>

EmptyTenant == [rs |-> <<>>, clients |-> <<>>, grants |-> <<>>]

InitRequest ==
    /\ rq = RqIdle
    /\ tenant = EmptyTenant
    /\ pc = <<>>
    /\ loc = <<>>
    /\ sink = <<>>
    /\ ver = <<>>
    /\ hist = <<>>

NextRequest == RequestCall \/ RequestAttempt

SpecRequest == InitRequest /\ [][NextRequest]_vars

(***************************************************************************)
(* Auth0Mgmt._request: checks                                              *)
(***************************************************************************)

\* The retryable set as the claims state it.
ClaimedRetryable == {429, 500, 502, 503, 504}

\* C3: _request sends at most 6 requests for one call, whatever the
\* responses; a call whose every attempt ended in a retryable status or in a
\* connection/timeout failure has sent exactly 6 when it ends, and it ends by
\* raising the error of the 6th attempt.
C3_AttemptBudget ==
    /\ rq.attempts <= 6
    /\ (rq.pc \in {"raised", "returned"} /\ rq.allRetryable)
         => /\ rq.pc = "raised"
            /\ rq.attempts = 6
            /\ rq.raisedAt = 6
            /\ rq.error = rq.last
    /\ (rq.allRetryable /\ rq.attempts < 6) => rq.pc \in {"idle", "attempt"}

C3_Witness ==
    /\ rq.pc = "raised"
    /\ rq.allRetryable
    /\ rq.attempts = 6
    /\ rq.error.kind = "response"
    /\ rq.error.status = 503

\* C4: an attempt that receives an error status outside {429, 500, 502, 503,
\* 504} ends the call by raising that response's error: no sleep follows it
\* (the sleeps made are those of the earlier attempts) and no further request.
C4_NonRetryableRaisesAtOnce ==
    (/\ rq.last.kind = "response"
     /\ rq.last.status >= 400
     /\ rq.last.status \notin ClaimedRetryable)
      => /\ rq.pc = "raised"
         /\ rq.error = rq.last
         /\ rq.raisedAt = rq.attempts
         /\ Len(rq.sleeps) = rq.attempts - 1

C4_Witness ==
    /\ rq.pc = "raised"
    /\ rq.last.kind = "response"
    /\ rq.last.status = 404
    /\ rq.attempts = 3
    /\ Len(rq.sleeps) = 2

\* The sleep the claims state for a failed attempt k that ended in o, in
\* tenths of a second: the Retry-After seconds of a response that carries a
\* numeric one, else 0.8 s times k.
ClaimedSleep(k, o) ==
    IF o.kind = "response" /\ o.retry_after = "2" THEN 20
    ELSE IF o.kind = "response" /\ o.retry_after = "30" THEN 300
    ELSE 8 * k

C19_SuccessAfterRetries ==
    rq.pc = "returned"
      => /\ rq.attempts \in 1..6
         /\ Len(rq.sleeps) = rq.attempts - 1
         /\ rq.last.kind = "response"
         /\ rq.last.status \in 200..299
         /\ rq.value = (IF rq.last.status = 204 THEN None ELSE "json")
         /\ rq.error = NoOutcome
         /\ rq.raisedAt = 0

\* Five retryable failures, then a 204 on the sixth attempt.
C19_Witness ==
    /\ rq.pc = "returned"
    /\ rq.attempts = 6
    /\ rq.last.status = 204
    /\ rq.value = None

(***************************************************************************)
(* Settings and desired specification                                      *)
(***************************************************************************)

\* Settings.audience, Settings.api_name, Settings.m2m_name (load_settings).
Audience == "https://fraud-rule-engine-api"
ApiName == "Fraud Rule Engine API"
M2mName == "Fraud Rule Engine M2M"

DEFAULT_SCOPES ==
    << [value |-> "execute:rules", description |-> "Execute rules for evaluation"],
       [value |-> "read:results", description |-> "Read execution results"],
       [value |-> "replay:transactions",
        description |-> "Replay historical transactions"],
       [value |-> "read:metrics", description |-> "Read execution metrics"] >>

\* [s["value"] for s in scopes]
ScopeValues(scopes) == [i \in 1..Len(scopes) |-> scopes[i].value]

\* Scope lists a definition can carry besides the default one: a drifted list
\* (two defaults and a manually added scope) and the defaults without
\* read:metrics.
StaleScopes ==
    << DEFAULT_SCOPES[1], DEFAULT_SCOPES[2],
       [value |-> "legacy:admin", description |-> "Added by hand"] >>
PartialScopes == SubSeq(DEFAULT_SCOPES, 1, 3)

RsScopeChoices == {DEFAULT_SCOPES, StaleScopes, PartialScopes}
GrantScopeChoices == {ScopeValues(sc) : sc \in RsScopeChoices}

Range(seq) == {seq[i] : i \in 1..Len(seq)}

(***************************************************************************)
(* The management API: what each request does to the tenant                *)
(***************************************************************************)

\* The first of a set of indices (a loop that stops at its first hit), 0
\* when the set is empty.
FirstIndex(hits) ==
    IF hits = {} THEN 0 ELSE CHOOSE i \in hits : \A j \in hits : i <= j

\* PATCH: the fields of the body replace those of the object, whole.
Patched(obj, body) ==
    [f \in DOMAIN obj \cup DOMAIN body |->
        IF f \in DOMAIN body THEN body[f] ELSE obj[f]]

\* JSON body of POST resource-servers.
create_resource_server_body(name, identifier, scopes) ==
    [name |-> name, identifier |-> identifier, scopes |-> scopes,
     signing_alg |-> "RS256", allow_offline_access |-> TRUE,
     token_lifetime |-> 7200, token_lifetime_for_web |-> 7200,
     enforce_policies |-> TRUE, token_dialect |-> "access_token_authz"]

\* A body that merges the scopes found with the desired ones.
update_resource_server_merging(existing, name, scopes) ==
    [name |-> name,
     scopes |-> existing.scopes
                \o SelectSeq(scopes, LAMBDA sc : sc \notin Range(existing.scopes)),
     allow_offline_access |-> TRUE, enforce_policies |-> TRUE,
     token_dialect |-> "access_token_authz"]

\* JSON body of PATCH resource-servers/{id}.
update_resource_server_body(existing, name, scopes) ==
    [name |-> name, scopes |-> scopes, allow_offline_access |-> TRUE,
     enforce_policies |-> TRUE, token_dialect |-> "access_token_authz"]

\* The loop of find_resource_server_by_identifier over the answer.
find_resource_server_by_identifier(results, identifier) ==
    LET i == FirstIndex({k \in 1..Len(results) : results[k].identifier = identifier})
    IN  IF i = 0 THEN <<>> ELSE <<results[i]>>

\* payload of ensure_m2m_client.
m2m_payload ==
    [app_type |-> "non_interactive", grant_types |-> <<"client_credentials">>,
     token_endpoint_auth_method |-> "client_secret_post",
     oidc_conformant |-> TRUE, is_first_party |-> TRUE]

\* body of create_client: {"name": name, "app_type": app_type, **payload}
create_client_body(name, app_type, payload) ==
    Patched([name |-> name, app_type |-> app_type], payload)

\* list_clients default per_page, and the page length find_client_by_name
\* takes for a full page.
per_page == 50
full_page == 50

\* A listing whose pages start one client late.
list_clients_late(all, page, perPage) ==
    LET from == page * perPage + 2
        to == IF (page + 1) * perPage + 1 < Len(all) THEN (page + 1) * perPage + 1
              ELSE Len(all)
        slice == IF from > to THEN <<>> ELSE SubSeq(all, from, to)
    IN  [i \in 1..Len(slice) |->
            [client_id |-> slice[i].client_id, name |-> slice[i].name,
             app_type |-> slice[i].app_type]]

\* GET clients?page=..&per_page=..&fields=client_id,name,app_type
list_clients(all, page, perPage) ==
    LET from == page * perPage + 1
        to == IF (page + 1) * perPage < Len(all) THEN (page + 1) * perPage
              ELSE Len(all)
        slice == SubSeq(all, from, to)
    IN  [i \in 1..Len(slice) |->
            [client_id |-> slice[i].client_id, name |-> slice[i].name,
             app_type |-> slice[i].app_type]]

\* A loop that takes a full page without a match for the last page.
FindFromPage_full_is_last(all, name, page) ==
    LET clients == list_clients(all, page, per_page)
        i == FirstIndex({k \in 1..Len(clients) : clients[k].name = name})
    IN  IF i # 0 THEN [found |-> <<clients[i]>>, fetches |-> page + 1]
        ELSE [found |-> <<>>, fetches |-> page + 1]

\* The while loop of find_client_by_name from page `page` on: what it
\* returns and how many pages it has fetched by then.
RECURSIVE FindFromPage(_, _, _)
FindFromPage(all, name, page) ==
    LET clients == list_clients(all, page, per_page)
        i == FirstIndex({k \in 1..Len(clients) : clients[k].name = name})
    IN  IF Len(clients) = 0 THEN [found |-> <<>>, fetches |-> page + 1]
        ELSE IF i # 0 THEN [found |-> <<clients[i]>>, fetches |-> page + 1]
        ELSE IF Len(clients) < full_page
        THEN [found |-> <<>>, fetches |-> page + 1]
        ELSE FindFromPage(all, name, page + 1)

\* A lookup that never finds the client.
find_client_never(all, name) == [found |-> <<>>, fetches |-> 1]

find_client_by_name(all, name) == FindFromPage(all, name, 0)

\* GET client-grants?client_id=..
list_client_grants(grants, client_id) ==
    SelectSeq(grants, LAMBDA g : g.client_id = client_id)

\* The loop of ensure_client_grant over the grants of the client.
find_grant_by_audience(grants, audience) ==
    LET i == FirstIndex({k \in 1..Len(grants) : grants[k].audience = audience})
    IN  IF i = 0 THEN <<>> ELSE <<grants[i]>>

\* Index in the tenant's list of the object with this id (ids are never
\* reused and nothing is deleted).
RsIndex(t, id) == FirstIndex({k \in 1..Len(t.rs) : t.rs[k].id = id})
ClientIndex(t, id) == FirstIndex({k \in 1..Len(t.clients) : t.clients[k].client_id = id})
GrantIndex(t, id) == FirstIndex({k \in 1..Len(t.grants) : t.grants[k].id = id})

\* The identifier of a definition is unique in the tenant, and so is the
\* (client_id, audience) of a grant: a POST of a second one is answered 409,
\* which _request raises at once. Client names are not unique.
RsConflict(t, body) == \E i \in 1..Len(t.rs) : t.rs[i].identifier = body.identifier
GrantConflict(t, body) ==
    \E i \in 1..Len(t.grants) :
        /\ t.grants[i].client_id = body.client_id
        /\ t.grants[i].audience = body.audience

(***************************************************************************)
(* ensure_resource_server, ensure_m2m_client, ensure_client_grant          *)
(*                                                                         *)
(* A process p is at pc[p]; loc[p] holds the arguments of the operation    *)
(* (args), the object its lookup found (existing, <<>> for None) and what  *)
(* the operations returned (rs, m2m, grant). Each action is one            *)
(* Auth0Mgmt._request call: "ok" is its answer applied to the tenant,      *)
(* "raise" an error it raised (a non-retryable status or the retries       *)
(* exhausted), which leaves the tenant as it was and unwinds the caller.   *)
(***************************************************************************)

RequestResults == {"ok", "raise"}

Args(identifier, name, scopes, m2m_name, client_id, audience, grant_scopes) ==
    [identifier |-> identifier, name |-> name, scopes |-> scopes,
     m2m_name |-> m2m_name, client_id |-> client_id, audience |-> audience,
     grant_scopes |-> grant_scopes]

LocInit(args) ==
    [args |-> args, existing |-> <<>>, rs |-> <<>>, m2m |-> <<>>, grant |-> <<>>]

\* A client whose updates go out as DELETE.
Req_deleting(method, path) ==
    [method |-> IF method = "PATCH" THEN "DELETE" ELSE method, path |-> path]

\* self._request(method, path, ...)
Req(method, path) == [method |-> method, path |-> path]

\* hist with the request of p logged, and whether it was made to raise.
Logged(p, reqs, fault) ==
    [hist EXCEPT !.methods[p] = @ \o reqs, !.faults[p] = @ \/ fault]

\* An error of the first operation that main swallows, going on to the next.
Raise_and_go_on(p, reqs) ==
    /\ pc' = [pc EXCEPT ![p] = IF pc[p] \in {"rs_find", "rs_create", "rs_update"}
                                THEN "cl_find" ELSE "raised"]
    /\ hist' = Logged(p, reqs, TRUE)
    /\ UNCHANGED <<tenant, loc>>

\* The request of p raises out of _request, through the operation and
\* through main (try/finally, no except): nothing of main runs after it.
Raise(p, reqs) ==
    /\ pc' = [pc EXCEPT ![p] = "raised"]
    /\ hist' = Logged(p, reqs, TRUE)
    /\ UNCHANGED <<tenant, loc>>

\* `if not existing` of ensure_resource_server.
ensure_resource_server_branch(existing) ==
    IF Len(existing) = 0 THEN "rs_create" ELSE "rs_update"

EnsureRsFind(p) ==
    /\ pc[p] = "rs_find"
    /\ \E out \in RequestResults :
        LET reqs == <<Req("GET", "resource-servers")>>
            existing == find_resource_server_by_identifier(
                            tenant.rs, loc[p].args.identifier)
        IN  IF out = "ok"
            THEN /\ loc' = [loc EXCEPT ![p].existing = existing]
                 /\ pc' = [pc EXCEPT ![p] = ensure_resource_server_branch(existing)]
                 /\ hist' = Logged(p, reqs, FALSE)
                 /\ UNCHANGED tenant
            ELSE Raise(p, reqs)
    /\ UNCHANGED <<rq, sink, ver>>

EnsureRsCreate(p) ==
    /\ pc[p] = "rs_create"
    /\ \E out \in RequestResults :
        LET reqs == <<Req("POST", "resource-servers")>>
            a == loc[p].args
            body == create_resource_server_body(a.name, a.identifier, a.scopes)
            created == Patched([id |-> Len(tenant.rs) + 1], body)
        IN  IF out = "ok" /\ ~RsConflict(tenant, body)
            THEN /\ tenant' = [tenant EXCEPT !.rs = Append(@, created)]
                 /\ loc' = [loc EXCEPT ![p].rs = <<created>>]
                 /\ pc' = [pc EXCEPT ![p] = "ret_rs"]
                 /\ hist' = Logged(p, reqs, FALSE)
            ELSE /\ pc' = [pc EXCEPT ![p] = "raised"]
                 /\ hist' = Logged(p, reqs, out = "raise")
                 /\ UNCHANGED <<tenant, loc>>
    /\ UNCHANGED <<rq, sink, ver>>

EnsureRsUpdate(p) ==
    /\ pc[p] = "rs_update"
    /\ \E out \in RequestResults :
        LET reqs == <<Req("PATCH", "resource-servers")>>
            a == loc[p].args
            old == loc[p].existing[1]
            i == RsIndex(tenant, old.id)
            updated == Patched(tenant.rs[i],
                               update_resource_server_body(old, a.name, a.scopes))
        IN  IF out = "ok"
            THEN /\ tenant' = [tenant EXCEPT !.rs[i] = updated]
                 /\ loc' = [loc EXCEPT ![p].rs = <<updated>>]
                 /\ pc' = [pc EXCEPT ![p] = "ret_rs"]
                 /\ hist' = Logged(p, reqs, FALSE)
            ELSE Raise(p, reqs)
    /\ UNCHANGED <<rq, sink, ver>>

\* A branch that takes every lookup result for "not found".
ensure_m2m_client_always_creates(existing) == "cl_create"

\* `if not existing` of ensure_m2m_client.
ensure_m2m_client_branch(existing) ==
    IF Len(existing) = 0 THEN "cl_create" ELSE "cl_update"

\* n requests GET clients, one per page fetched.
PageFetches(n) == [k \in 1..n |-> Req("GET", "clients")]

EnsureM2mFind(p) ==
    /\ pc[p] = "cl_find"
    /\ \E out \in RequestResults :
        LET look == find_client_by_name(tenant.clients, loc[p].args.m2m_name)
        IN  IF out = "ok"
            THEN /\ loc' = [loc EXCEPT ![p].existing = look.found]
                 /\ pc' = [pc EXCEPT ![p] = ensure_m2m_client_branch(look.found)]
                 /\ hist' = Logged(p, PageFetches(look.fetches), FALSE)
                 /\ UNCHANGED tenant
            ELSE Raise(p, PageFetches(1))
    /\ UNCHANGED <<rq, sink, ver>>

\* The secret the tenant issues for the client it creates with this id.
SecretOf(client_id) == <<"secret", client_id>>

EnsureM2mCreate(p) ==
    /\ pc[p] = "cl_create"
    /\ \E out \in RequestResults :
        LET reqs == <<Req("POST", "clients")>>
            id == Len(tenant.clients) + 1
            body == create_client_body(loc[p].args.m2m_name, "non_interactive",
                                       m2m_payload)
            created == Patched([client_id |-> id, client_secret |-> SecretOf(id)],
                               body)
        IN  IF out = "ok"
            THEN /\ tenant' = [tenant EXCEPT !.clients = Append(@, created)]
                 /\ loc' = [loc EXCEPT ![p].m2m = <<created>>]
                 /\ pc' = [pc EXCEPT ![p] = "ret_m2m"]
                 /\ hist' = Logged(p, reqs, FALSE)
            ELSE Raise(p, reqs)
    /\ UNCHANGED <<rq, sink, ver>>

\* The answer to PATCH clients/{id}: the client without its secret, which
\* only the answer to the creating POST carries.
WithoutSecret(client) ==
    [f \in DOMAIN client \ {"client_secret"} |-> client[f]]

EnsureM2mUpdate(p) ==
    /\ pc[p] = "cl_update"
    /\ \E out \in RequestResults :
        LET reqs == <<Req("PATCH", "clients")>>
            i == ClientIndex(tenant, loc[p].existing[1].client_id)
            updated == Patched(tenant.clients[i], m2m_payload)
        IN  IF out = "ok"
            THEN /\ tenant' = [tenant EXCEPT !.clients[i] = updated]
                 /\ loc' = [loc EXCEPT ![p].m2m = <<WithoutSecret(updated)>>]
                 /\ pc' = [pc EXCEPT ![p] = "ret_m2m"]
                 /\ hist' = Logged(p, reqs, FALSE)
            ELSE Raise(p, reqs)
    /\ UNCHANGED <<rq, sink, ver>>

\* `if not existing` of ensure_client_grant.
ensure_client_grant_branch(existing) ==
    IF Len(existing) = 0 THEN "gr_create" ELSE "gr_update"

EnsureGrantFind(p) ==
    /\ pc[p] = "gr_find"
    /\ \E out \in RequestResults :
        LET reqs == <<Req("GET", "client-grants")>>
            a == loc[p].args
            grants == list_client_grants(tenant.grants, a.client_id)
            existing == find_grant_by_audience(grants, a.audience)
        IN  IF out = "ok"
            THEN /\ loc' = [loc EXCEPT ![p].existing = existing]
                 /\ pc' = [pc EXCEPT ![p] = ensure_client_grant_branch(existing)]
                 /\ hist' = Logged(p, reqs, FALSE)
                 /\ UNCHANGED tenant
            ELSE Raise(p, reqs)
    /\ UNCHANGED <<rq, sink, ver>>

\* A body that leaves the scopes out.
create_client_grant_unscoped(client_id, audience, scope) ==
    [client_id |-> client_id, audience |-> audience, scope |-> <<>>]

\* JSON body of POST client-grants.
create_client_grant_body(client_id, audience, scope) ==
    [client_id |-> client_id, audience |-> audience, scope |-> scope]

\* A body that keeps the scopes the grant has and adds the desired ones.
update_client_grant_merging(existing, scope) ==
    [scope |-> existing.scope
               \o SelectSeq(scope, LAMBDA v : v \notin Range(existing.scope))]

\* JSON body of PATCH client-grants/{id}.
update_client_grant_body(existing, scope) == [scope |-> scope]

EnsureGrantCreate(p) ==
    /\ pc[p] = "gr_create"
    /\ \E out \in RequestResults :
        LET reqs == <<Req("POST", "client-grants")>>
            a == loc[p].args
            body == create_client_grant_body(a.client_id, a.audience,
                                             a.grant_scopes)
            created == Patched([id |-> Len(tenant.grants) + 1], body)
        IN  IF out = "ok" /\ ~GrantConflict(tenant, body)
            THEN /\ tenant' = [tenant EXCEPT !.grants = Append(@, created)]
                 /\ loc' = [loc EXCEPT ![p].grant = <<created>>]
                 /\ pc' = [pc EXCEPT ![p] = "ret_gr"]
                 /\ hist' = Logged(p, reqs, FALSE)
            ELSE /\ pc' = [pc EXCEPT ![p] = "raised"]
                 /\ hist' = Logged(p, reqs, out = "raise")
                 /\ UNCHANGED <<tenant, loc>>
    /\ UNCHANGED <<rq, sink, ver>>

EnsureGrantUpdate(p) ==
    /\ pc[p] = "gr_update"
    /\ \E out \in RequestResults :
        LET reqs == <<Req("PATCH", "client-grants")>>
            old == loc[p].existing[1]
            i == GrantIndex(tenant, old.id)
            updated == Patched(tenant.grants[i],
                               update_client_grant_body(old, loc[p].args.grant_scopes))
        IN  IF out = "ok"
            THEN /\ tenant' = [tenant EXCEPT !.grants[i] = updated]
                 /\ loc' = [loc EXCEPT ![p].grant = <<updated>>]
                 /\ pc' = [pc EXCEPT ![p] = "ret_gr"]
                 /\ hist' = Logged(p, reqs, FALSE)
            ELSE Raise(p, reqs)
    /\ UNCHANGED <<rq, sink, ver>>

\* One request of whichever ensure_* operation p is in.
EnsureStep(p) ==
    \/ EnsureRsFind(p) \/ EnsureRsCreate(p) \/ EnsureRsUpdate(p)
    \/ EnsureM2mFind(p) \/ EnsureM2mCreate(p) \/ EnsureM2mUpdate(p)
    \/ EnsureGrantFind(p) \/ EnsureGrantCreate(p) \/ EnsureGrantUpdate(p)

(***************************************************************************)
(* Tenant states a run can start from                                      *)
(***************************************************************************)

\* A definition as the tenant stores it.
RsObject(id, identifier, name, scopes, alg, lifetime, offline) ==
    Patched(Patched([id |-> id],
                    create_resource_server_body(name, identifier, scopes)),
            [signing_alg |-> alg, token_lifetime |-> lifetime,
             allow_offline_access |-> offline])

\* A client as the tenant stores it.
ClientObject(id, name, app_type) ==
    Patched(Patched([client_id |-> id, client_secret |-> SecretOf(id)],
                    create_client_body(name, app_type, m2m_payload)),
            [app_type |-> app_type])

GrantObject(id, client_id, audience, scope) ==
    Patched([id |-> id], create_client_grant_body(client_id, audience, scope))

\* The definition every tenant has besides ours, and a client of another
\* application.
OtherRs ==
    RsObject(1, "https://tenant/api/v2/", "Management API", <<>>, "RS256",
             86400, FALSE)
OtherClient == ClientObject(1, "Default App", "spa")

\* Ours, as an earlier bootstrap left it or as set up by hand.
OurRsInits ==
    {RsObject(2, Audience, ApiName, sc, "RS256", 7200, TRUE) :
        sc \in RsScopeChoices}
    \cup {RsObject(2, Audience, "Rule Engine (old)", StaleScopes, "HS256",
                   86400, FALSE)}

RsInits == {<<>>, <<OtherRs>>} \cup {<<OtherRs, r>> : r \in OurRsInits}

OurClientInits ==
    {ClientObject(2, M2mName, t) : t \in {"non_interactive", "regular_web"}}

\* Clients and grants go together: a grant belongs to a client.
ClientGrantInits ==
    {[clients |-> <<>>, grants |-> <<>>],
     [clients |-> <<OtherClient>>, grants |-> <<>>]}
    \cup {[clients |-> <<OtherClient, c>>, grants |-> g] :
            c \in OurClientInits,
            g \in {<<>>} \cup {<<GrantObject(1, 2, Audience, sc)>> :
                                  sc \in GrantScopeChoices}}

TenantInits ==
    {[rs |-> r, clients |-> cg.clients, grants |-> cg.grants] :
        r \in RsInits, cg \in ClientGrantInits}

\* No two definitions with one identifier, no two clients with one name, no
\* two grants with one (client_id, audience).
NoDuplicateKeys(t) ==
    /\ \A i, j \in 1..Len(t.rs) :
         t.rs[i].identifier = t.rs[j].identifier => i = j
    /\ \A i, j \in 1..Len(t.clients) :
         t.clients[i].name = t.clients[j].name => i = j
    /\ \A i, j \in 1..Len(t.grants) :
         (/\ t.grants[i].client_id = t.grants[j].client_id
          /\ t.grants[i].audience = t.grants[j].audience) => i = j

(***************************************************************************)
(* SpecEnsure: one caller, one ensure_* call after another                 *)
(***************************************************************************)

\* How many calls the caller makes.
MaxCalls == 3

Caller == 0

RetPcs == {"ret_rs", "ret_m2m", "ret_gr"}

\* What main passes to the three operations; client_id is filled in from the
\* client the second one returns.
MainArgs ==
    Args(Audience, ApiName, DEFAULT_SCOPES, M2mName, 0, Audience,
         ScopeValues(DEFAULT_SCOPES))

HistInit(procs, t) ==
    [init |-> t,
     methods |-> [p \in procs |-> <<>>],
     faults |-> [p \in procs |-> FALSE],
     calls |-> 0,
     prev |-> <<>>,
     pre |-> t,
     doneBefore |-> [p \in procs |-> {}],
     doneTenant |-> [p \in procs |-> <<>>],
     disturbed |-> {},
     drifts |-> 0]

InitEnsure ==
    /\ rq = RqIdle
    /\ tenant \in TenantInits
    /\ pc = [p \in {Caller} |-> "idle"]
    /\ loc = [p \in {Caller} |-> LocInit(MainArgs)]
    /\ sink = <<>>
    /\ ver = [pc |-> "off"]
    /\ hist = HistInit({Caller}, tenant)

ClientIds(t) == {t.clients[i].client_id : i \in 1..Len(t.clients)}

\* The caller starts an operation with a desired specification of its
\* choice; hist.prev keeps the call that has just returned, hist.pre the
\* tenant this call starts from.
CallerInvoke ==
    /\ pc[Caller] \in {"idle", "raised"} \cup RetPcs
    /\ hist.calls < MaxCalls
    /\ \E op \in {"rs_find", "cl_find", "gr_find"},
          sc \in RsScopeChoices,
          cid \in ClientIds(tenant) \cup {0} :
        /\ (op = "gr_find") = (cid # 0)
        /\ op = "cl_find" => sc = DEFAULT_SCOPES
        /\ pc' = [pc EXCEPT ![Caller] = op]
        /\ loc' = [loc EXCEPT ![Caller] =
                     LocInit(Args(Audience, ApiName, sc, M2mName, cid, Audience,
                                  ScopeValues(sc)))]
        /\ hist' = [hist EXCEPT
                      !.calls = @ + 1,
                      !.methods[Caller] = <<>>,
                      !.faults[Caller] = FALSE,
                      !.pre = tenant,
                      !.prev = IF pc[Caller] \in RetPcs
                               THEN <<[op |-> pc[Caller],
                                       args |-> loc[Caller].args,
                                       after |-> tenant]>>
                               ELSE <<>>]
    /\ UNCHANGED <<rq, tenant, sink, ver>>

NextEnsure == CallerInvoke \/ EnsureStep(Caller)

SpecEnsure == InitEnsure /\ [][NextEnsure]_vars

\* The pc an operation returns at, by the pc it starts at.
RetOf(op) ==
    CASE op = "rs_find" -> "ret_rs"
      [] op = "cl_find" -> "ret_m2m"
      [] op = "gr_find" -> "ret_gr"

Methods(p) == {hist.methods[p][k].method : k \in 1..Len(hist.methods[p])}

\* The call that has just returned repeats the one before it: the same
\* operation with the same desired specification.
SecondCall ==
    /\ pc[Caller] \in RetPcs
    /\ Len(hist.prev) = 1
    /\ hist.prev[1].op = pc[Caller]
    /\ hist.prev[1].args = loc[Caller].args

\* C1: called twice in a row with the same desired specification, each of
\* ensure_resource_server, ensure_m2m_client and ensure_client_grant leaves
\* the tenant after the second call as it was after the first; the second
\* call issues a PATCH and no POST; no two objects ever share a natural key.
C1_EnsureTwice ==
    /\ SecondCall
         => /\ tenant = hist.prev[1].after
            /\ "POST" \notin Methods(Caller)
            /\ "PATCH" \in Methods(Caller)
    /\ NoDuplicateKeys(tenant)

C1_Witness ==
    /\ SecondCall
    /\ pc[Caller] = "ret_m2m"
    /\ hist.init.clients = <<>>
    /\ Len(tenant.clients) = 1

\* The scopes of the definition with this identifier, of the grant of this
\* (client_id, audience): the set of the scope lists found, one per object.
RsScopesOf(t, identifier) ==
    {t.rs[i].scopes : i \in {k \in 1..Len(t.rs) : t.rs[k].identifier = identifier}}
GrantScopesOf(t, client_id, audience) ==
    {t.grants[i].scope :
        i \in {k \in 1..Len(t.grants) : /\ t.grants[k].client_id = client_id
                                        /\ t.grants[k].audience = audience}}

\* C2: when ensure_resource_server returns, the definition's scope list is
\* exactly the desired one, whatever it was before; when ensure_client_grant
\* returns, so is the scope list of the grant.
C2_ExactReplace ==
    /\ pc[Caller] = "ret_rs"
         => RsScopesOf(tenant, loc[Caller].args.identifier)
              = {loc[Caller].args.scopes}
    /\ pc[Caller] = "ret_gr"
         => GrantScopesOf(tenant, loc[Caller].args.client_id,
                          loc[Caller].args.audience)
              = {loc[Caller].args.grant_scopes}

\* {A, B, C} -> {B, C, D}: the definition had a scope the desired list
\* lacks and lacked scopes the desired list has.
C2_Witness ==
    /\ pc[Caller] = "ret_rs"
    /\ RsScopesOf(hist.pre, Audience) = {StaleScopes}
    /\ loc[Caller].args.scopes = DEFAULT_SCOPES
    /\ "PATCH" \in Methods(Caller)

(***************************************************************************)
(* verify_auth0.py: Auth0Verifier                                          *)
(*                                                                         *)
(* ver.pc is the check about to run; ver.results the results so far, in    *)
(* the order of the list run_all_checks builds.                            *)
(***************************************************************************)

EXPECTED_SCOPES ==
    <<"execute:rules", "read:results", "replay:transactions", "read:metrics">>

\* VerificationResult; kind stands for the message, missing and extra for
\* the "Missing:" and "Extra:" detail lines.
Result(name, passed, kind, missing, extra) ==
    [name |-> name, passed |-> passed, kind |-> kind, missing |-> missing,
     extra |-> extra]

\* A request that creates instead of reading.
client_post(path) == Req("POST", path)

\* self.client.get(path)
client_get(path) == Req("GET", path)

\* The tenant after the management API has served a request without a body
\* of the verifier's client: a GET leaves it as it is, a POST adds an object
\* to the collection.
Served(t, req) ==
    IF req.method = "GET" THEN t
    ELSE IF req.path = "resource-servers"
    THEN [t EXCEPT !.rs = Append(@, RsObject(Len(t.rs) + 1, "", "", <<>>,
                                             "RS256", 86400, FALSE))]
    ELSE IF req.path = "clients"
    THEN [t EXCEPT !.clients = Append(@, ClientObject(Len(t.clients) + 1, "",
                                                       "regular_web"))]
    ELSE [t EXCEPT !.grants = Append(@, GrantObject(Len(t.grants) + 1, 0, "",
                                                    <<>>))]

\* What a read of the verifier ends in: an answer, or an httpx.HTTPError
\* (an error status at raise_for_status, or a connection failure).
ReadResults == {"ok", "error"}

\* A comparison that also reports the scopes beyond the expected ones.
MissingFrom_or_extra(scopes) ==
    SelectSeq(EXPECTED_SCOPES, LAMBDA v : v \notin Range(scopes))
    \o SelectSeq(scopes, LAMBDA v : v \notin Range(EXPECTED_SCOPES))

\* missing = [s for s in EXPECTED_SCOPES if s not in scopes]
MissingFrom(scopes) ==
    SelectSeq(EXPECTED_SCOPES, LAMBDA v : v \notin Range(scopes))

\* extra = [s for s in api_scopes if s not in EXPECTED_SCOPES]
ExtraIn(scopes) ==
    SelectSeq(scopes, LAMBDA v : v \notin Range(EXPECTED_SCOPES))

\* A check that takes a definition without scopes for no definition.
verify_api_exists_with_scopes(apis, audience, out) ==
    LET i == FirstIndex({k \in 1..Len(apis) : /\ apis[k].identifier = audience
                                              /\ apis[k].scopes # <<>>})
    IN  IF out = "error" THEN Result("API Exists", FALSE, "error", <<>>, <<>>)
        ELSE IF i # 0 THEN Result("API Exists", TRUE, "found", <<>>, <<>>)
        ELSE Result("API Exists", FALSE, "not_found", <<>>, <<>>)

verify_api_exists(apis, audience, out) ==
    LET i == FirstIndex({k \in 1..Len(apis) : apis[k].identifier = audience})
    IN  IF out = "error" THEN Result("API Exists", FALSE, "error", <<>>, <<>>)
        ELSE IF i # 0 THEN Result("API Exists", TRUE, "found", <<>>, <<>>)
        ELSE Result("API Exists", FALSE, "not_found", <<>>, <<>>)

verify_api_scopes(apis, audience, out) ==
    LET i == FirstIndex({k \in 1..Len(apis) : apis[k].identifier = audience})
        api_scopes == ScopeValues(apis[i].scopes)
        missing == MissingFrom(api_scopes)
    IN  IF out = "error" THEN Result("API Scopes", FALSE, "error", <<>>, <<>>)
        ELSE IF i = 0 THEN Result("API Scopes", FALSE, "not_found", <<>>, <<>>)
        ELSE IF missing # <<>>
        THEN Result("API Scopes", FALSE, "missing", missing, ExtraIn(api_scopes))
        ELSE Result("API Scopes", TRUE, "all_present", <<>>, <<>>)

\* _find_m2m_client: the first client of the listing with the name; None on
\* an httpx.HTTPError.
find_m2m_client(clients, m2m_name, out) ==
    LET i == FirstIndex({k \in 1..Len(clients) : clients[k].name = m2m_name})
    IN  IF out = "error" \/ i = 0 THEN <<>> ELSE <<clients[i]>>

verify_m2m_app_exists(client) ==
    IF Len(client) = 1 THEN Result("M2M App Exists", TRUE, "found", <<>>, <<>>)
    ELSE Result("M2M App Exists", FALSE, "not_found", <<>>, <<>>)

\* verify_client_grant when _find_m2m_client returned None.
verify_client_grant_no_client ==
    Result("Client Grant", FALSE, "no_client", <<>>, <<>>)

\* verify_client_grant from the answer to GET client-grants?client_id=..
verify_client_grant(grants, audience, out) ==
    LET i == FirstIndex({k \in 1..Len(grants) : grants[k].audience = audience})
        missing == MissingFrom(grants[i].scope)
    IN  IF out = "error" THEN Result("Client Grant", FALSE, "error", <<>>, <<>>)
        ELSE IF i = 0 THEN Result("Client Grant", FALSE, "not_found", <<>>, <<>>)
        ELSE IF missing # <<>>
        THEN Result("Client Grant", FALSE, "missing", missing, <<>>)
        ELSE Result("Client Grant", TRUE, "all_present", <<>>, <<>>)

\* A run that stops at the first failed check.
run_all_checks_short_circuit(result, next) ==
    IF result.passed THEN next ELSE "print"

\* run_all_checks builds the list of the four results: after a check comes
\* the next one, whatever the check returned.
run_all_checks_next(result, next) == next

\* A conjunction that forgets the last result.
print_results_but_last(results) ==
    \A i \in 1..(Len(results) - 1) : results[i].passed

\* print_results: all_passed starts True and each failed result clears it.
RECURSIVE all_passed_after(_, _)
all_passed_after(results, n) ==
    IF n = 0 THEN TRUE
    ELSE IF ~results[n].passed THEN FALSE
    ELSE all_passed_after(results, n - 1)

print_results(results) == all_passed_after(results, Len(results))

VerInit ==
    [pc |-> "idle", results |-> <<>>, exit |-> -1, methods |-> <<>>,
     readErr |-> FALSE, client |-> <<>>, snap |-> EmptyTenant, from |-> 0,
     stable |-> TRUE]

\* main of verify_auth0.py up to the token request; the environment holds
\* the four required variables. ver.snap is the tenant the run starts on and
\* ver.from a bootstrap run that exited 0, that nobody else's edit fell
\* into, and that left the tenant as it is now (0 when there is none).
VerStart ==
    /\ ver.pc = "idle"
    /\ ver' = [ver EXCEPT
                 !.pc = "token",
                 !.snap = tenant,
                 !.from = LET ok == {r \in DOMAIN pc :
                                        /\ pc[r] = "done"
                                        /\ r \notin hist.disturbed
                                        /\ hist.doneTenant[r] = <<tenant>>}
                          IN  IF ok = {} THEN 0 ELSE CHOOSE r \in ok : TRUE]
    /\ UNCHANGED <<rq, tenant, pc, loc, sink, hist>>

\* httpx.post(.../oauth/token): any failure prints an error and exits 1.
VerToken ==
    /\ ver.pc = "token"
    /\ \E out \in ReadResults :
        ver' = IF out = "ok" THEN [ver EXCEPT !.pc = "api_exists"]
               ELSE [ver EXCEPT !.pc = "aborted", !.exit = 1]
    /\ UNCHANGED <<rq, tenant, pc, loc, sink, hist>>

\* ver after a check that made request req, ended in out and returned
\* result; next is the check after it in the list of run_all_checks.
\* Where ver has the field errs, it keeps for each result whether the read
\* of its check ended in an error.
Checked(req, out, result, next) ==
    LET v == [ver EXCEPT !.results = Append(@, result),
                         !.pc = run_all_checks_next(result, next),
                         !.methods = Append(@, req),
                         !.readErr = @ \/ out = "error",
                         !.stable = @ /\ tenant = ver.snap]
    IN  IF "errs" \in DOMAIN ver
        THEN [v EXCEPT !.errs = Append(@, out = "error")]
        ELSE v

VerApiExists ==
    /\ ver.pc = "api_exists"
    /\ \E out \in ReadResults :
        LET req == client_get("resource-servers")
        IN  /\ ver' = Checked(req, out,
                              verify_api_exists(tenant.rs, Audience, out),
                              "api_scopes")
            /\ tenant' = Served(tenant, req)
    /\ UNCHANGED <<rq, pc, loc, sink, hist>>

VerApiScopes ==
    /\ ver.pc = "api_scopes"
    /\ \E out \in ReadResults :
        LET req == client_get("resource-servers")
        IN  /\ ver' = Checked(req, out,
                              verify_api_scopes(tenant.rs, Audience, out),
                              "m2m_exists")
            /\ tenant' = Served(tenant, req)
    /\ UNCHANGED <<rq, pc, loc, sink, hist>>

\* What GET clients without page parameters is answered with: the server
\* pages the listing as it does by default, which the request leaves to it:
\* the whole listing, or its first page of the default size (50, the size
\* find_client_by_name takes for a full page).
UnpagedListings(all) ==
    {all, SubSeq(all, 1, IF Len(all) < per_page THEN Len(all) ELSE per_page)}

VerM2mExists ==
    /\ ver.pc = "m2m_exists"
    /\ \E out \in ReadResults, listing \in UnpagedListings(tenant.clients) :
        LET req == client_get("clients")
            client == find_m2m_client(listing, M2mName, out)
        IN  /\ ver' = Checked(req, out, verify_m2m_app_exists(client),
                              "grant_client")
            /\ tenant' = Served(tenant, req)
    /\ UNCHANGED <<rq, pc, loc, sink, hist>>

\* verify_client_grant, its call of _find_m2m_client.
VerGrantClient ==
    /\ ver.pc = "grant_client"
    /\ \E out \in ReadResults, listing \in UnpagedListings(tenant.clients) :
        LET req == client_get("clients")
            client == find_m2m_client(listing, M2mName, out)
        IN  /\ ver' = IF Len(client) = 0
                      THEN Checked(req, out, verify_client_grant_no_client,
                                   "print")
                      ELSE [ver EXCEPT !.pc = "grant_get",
                                       !.client = client,
                                       !.methods = Append(@, req),
                                       !.stable = @ /\ tenant = ver.snap]
            /\ tenant' = Served(tenant, req)
    /\ UNCHANGED <<rq, pc, loc, sink, hist>>

\* verify_client_grant, its read of the grants of the client found.
VerGrantGet ==
    /\ ver.pc = "grant_get"
    /\ \E out \in ReadResults :
        LET req == client_get("client-grants")
            grants == list_client_grants(tenant.grants, ver.client[1].client_id)
        IN  /\ ver' = Checked(req, out,
                              verify_client_grant(grants, Audience, out),
                              "print")
            /\ tenant' = Served(tenant, req)
    /\ UNCHANGED <<rq, pc, loc, sink, hist>>

\* all_passed = print_results(results); sys.exit(0 if all_passed else 1)
VerPrint ==
    /\ ver.pc = "print"
    /\ ver' = [ver EXCEPT !.pc = "done",
                          !.exit = IF print_results(ver.results) THEN 0 ELSE 1]
    /\ UNCHANGED <<rq, tenant, pc, loc, sink, hist>>

VerStep ==
    \/ VerStart \/ VerToken \/ VerApiExists \/ VerApiScopes \/ VerM2mExists
    \/ VerGrantClient \/ VerGrantGet \/ VerPrint

(***************************************************************************)
(* setup_auth0.py: main                                                    *)
(***************************************************************************)

\* How many bootstrap runs there are, and how many times somebody edits the
\* scopes by hand while they run.
NumRuns == 2
MaxDrifts == 1

Runs == 1..NumRuns

\* A run that has ended: return 0, or an exception out of main (exit 1).
Terminal == {"done", "raised", "crashed"}

ExitCode(p) == IF pc[p] = "done" THEN 0 ELSE 1

\* main up to the token request: settings loaded, --yes given. Runs start in
\* the order of their numbers; hist.doneBefore[p] is who had ended by then.
MainStart(p) ==
    /\ pc[p] = "idle"
    /\ \A q \in DOMAIN pc : q < p => pc[q] # "idle"
    /\ pc' = [pc EXCEPT ![p] = "token"]
    /\ hist' = [hist EXCEPT
                  !.doneBefore[p] = {q \in DOMAIN pc : pc[q] \in Terminal}]
    /\ UNCHANGED <<rq, tenant, loc, sink, ver>>

\* _get_management_token, then the call of ensure_resource_server.
MainToken(p) ==
    /\ pc[p] = "token"
    /\ \E out \in RequestResults :
        IF out = "ok"
        THEN /\ pc' = [pc EXCEPT ![p] = "rs_find"]
             /\ loc' = [loc EXCEPT ![p] = LocInit(MainArgs)]
             /\ hist' = hist
        ELSE /\ pc' = [pc EXCEPT ![p] = "crashed"]
             /\ hist' = [hist EXCEPT !.faults[p] = TRUE]
             /\ loc' = loc
    /\ UNCHANGED <<rq, tenant, sink, ver>>

\* ensure_resource_server has returned: the call of ensure_m2m_client.
MainAfterRs(p) ==
    /\ pc[p] = "ret_rs"
    /\ pc' = [pc EXCEPT ![p] = "cl_find"]
    /\ UNCHANGED <<rq, tenant, loc, sink, ver, hist>>

\* m2m_client = ensure_m2m_client(...); the call of ensure_client_grant
\* with client_id=m2m_client["client_id"].
MainAfterM2m(p) ==
    /\ pc[p] = "ret_m2m"
    /\ pc' = [pc EXCEPT ![p] = "gr_find"]
    /\ loc' = [loc EXCEPT ![p].args.client_id = loc[p].m2m[1].client_id]
    /\ UNCHANGED <<rq, tenant, sink, ver, hist>>

\* A test that takes every client for a new one.
main_syncs_always(m2m_client) == TRUE

\* if "client_secret" in m2m_client
main_syncs(m2m_client) == "client_secret" \in DOMAIN m2m_client

\* m2m_secrets as main builds it.
m2m_secrets(m2m_client) ==
    IF "client_secret" \in DOMAIN m2m_client
    THEN [AUTH0_CLIENT_ID |-> m2m_client.client_id,
          AUTH0_CLIENT_SECRET |-> m2m_client.client_secret]
    ELSE [AUTH0_CLIENT_ID |-> m2m_client.client_id]

\* p returns 0: hist.doneTenant[p] keeps the tenant at that moment.
Done(p) ==
    /\ pc' = [pc EXCEPT ![p] = "done"]
    /\ hist' = [hist EXCEPT !.doneTenant[p] = <<tenant>>]

\* ensure_client_grant has returned: the secret is synced or skipped.
MainAfterGrant(p) ==
    /\ pc[p] = "ret_gr"
    /\ IF main_syncs(loc[p].m2m[1])
       THEN /\ pc' = [pc EXCEPT ![p] = "sync"]
            /\ hist' = hist
       ELSE Done(p)
    /\ UNCHANGED <<rq, tenant, loc, sink, ver>>

\* What subprocess.run(cmd, ..., timeout=30) ends in: return code 0, a
\* non-zero return code, subprocess.TimeoutExpired, FileNotFoundError (no
\* doppler command).
SyncOutcomes == {"synced", "nonzero", "timeout", "not_found"}

\* An except clause that names FileNotFoundError alone.
sync_catches_not_found_only(outcome) == outcome = "not_found"

\* except (subprocess.TimeoutExpired, FileNotFoundError, Exception)
sync_catches(outcome) == outcome \in {"timeout", "not_found"}

\* cmd: the fixed words and one "KEY=value" argument per secret; the
\* secrets whose values it holds.
doppler_cmd(secrets_dict) == DOMAIN secrets_dict

\* A warning that prints the command with every failure.
sync_prints_cmd_on_failure(secrets_dict, outcome) ==
    CASE outcome = "nonzero" -> {"stderr"} \cup doppler_cmd(secrets_dict)
      [] outcome = "synced" -> {"project", "config"}
      [] outcome = "timeout" -> doppler_cmd(secrets_dict)
      [] outcome = "not_found" -> {"filename"} \cup doppler_cmd(secrets_dict)

\* What the line printed by sync_secrets_to_doppler shows: the command's
\* stderr (line 65), a count and the project (68), or str(e) (71), which is
\* "Command '<cmd>' timed out after 30 seconds" for a TimeoutExpired and the
\* name of the missing file for a FileNotFoundError.
sync_prints(secrets_dict, outcome) ==
    CASE outcome = "nonzero" -> {"stderr"}
      [] outcome = "synced" -> {"project", "config"}
      [] outcome = "timeout" -> doppler_cmd(secrets_dict)
      [] outcome = "not_found" -> {"filename"}

\* sync_secrets_to_doppler: ok is what it returns, raised whether the
\* exception leaves it instead, shows what its console line holds.
sync_secrets_to_doppler(secrets_dict, outcome) ==
    IF DOMAIN secrets_dict = {}
    THEN [ok |-> TRUE, raised |-> FALSE, shows |-> {}]
    ELSE [ok |-> outcome = "synced",
          raised |-> outcome \in {"timeout", "not_found"}
                     /\ ~sync_catches(outcome),
          shows |-> sync_prints(secrets_dict, outcome)]

\* sync_secrets_to_doppler(m2m_secrets): whatever it returns is dropped;
\* main closes the client, prints and returns 0. An exception out of it
\* would leave main through the finally clause.
MainSync(p) ==
    /\ pc[p] = "sync"
    /\ \E outcome \in SyncOutcomes :
        LET secrets == m2m_secrets(loc[p].m2m[1])
            r == sync_secrets_to_doppler(secrets, outcome)
        IN  /\ sink' = Append(sink, [run |-> p, secrets |-> secrets,
                                     ok |-> r.ok, outcome |-> outcome,
                                     shows |-> r.shows])
            /\ IF r.raised
               THEN /\ pc' = [pc EXCEPT ![p] = "crashed"]
                    /\ hist' = hist
               ELSE Done(p)
    /\ UNCHANGED <<rq, tenant, loc, ver>>

MainStep(p) ==
    \/ MainStart(p) \/ MainToken(p) \/ MainAfterRs(p) \/ MainAfterM2m(p)
    \/ MainAfterGrant(p) \/ MainSync(p)

\* Somebody edits our definition or a grant for it by hand: its scope list
\* becomes a drifted one. hist.disturbed keeps the runs under way then.
Drift ==
    /\ hist.drifts < MaxDrifts
    /\ \/ \E i \in 1..Len(tenant.rs) :
            /\ tenant.rs[i].identifier = Audience
            /\ tenant.rs[i].scopes # StaleScopes
            /\ tenant' = [tenant EXCEPT !.rs[i].scopes = StaleScopes]
       \/ \E i \in 1..Len(tenant.grants) :
            /\ tenant.grants[i].audience = Audience
            /\ tenant.grants[i].scope # ScopeValues(StaleScopes)
            /\ tenant' = [tenant EXCEPT !.grants[i].scope = ScopeValues(StaleScopes)]
    /\ hist' = [hist EXCEPT
                  !.drifts = @ + 1,
                  !.disturbed = @ \cup {r \in DOMAIN pc :
                                          pc[r] \notin Terminal \cup {"idle"}}]
    /\ UNCHANGED <<rq, pc, loc, sink, ver>>

\* Clients and grants a bootstrap run can find: no client of ours, a client
\* without grant, a client set up by hand with a drifted grant, a converged
\* client.
ClientGrantStates ==
    {[clients |-> <<>>, grants |-> <<>>],
     [clients |-> <<OtherClient, ClientObject(2, M2mName, "non_interactive")>>,
      grants |-> <<>>],
     [clients |-> <<OtherClient, ClientObject(2, M2mName, "regular_web")>>,
      grants |-> <<GrantObject(1, 2, Audience, ScopeValues(StaleScopes))>>],
     [clients |-> <<OtherClient, ClientObject(2, M2mName, "non_interactive")>>,
      grants |-> <<GrantObject(1, 2, Audience, ScopeValues(DEFAULT_SCOPES))>>]}

Tenants(rsLists, clientGrants) ==
    {[rs |-> r, clients |-> cg.clients, grants |-> cg.grants] :
        r \in rsLists, cg \in clientGrants}

\* The tenants the runs start on: no definition, a converged one, or one set
\* up by hand long ago.
RunTenantInits ==
    Tenants({<<>>,
             <<OtherRs, RsObject(2, Audience, ApiName, DEFAULT_SCOPES, "RS256",
                                 7200, TRUE)>>,
             <<OtherRs, RsObject(2, Audience, "Rule Engine (old)", StaleScopes,
                                 "HS256", 86400, FALSE)>>},
            ClientGrantStates)

Init ==
    /\ rq = RqIdle
    /\ tenant \in RunTenantInits
    /\ pc = [p \in Runs |-> "idle"]
    /\ loc = [p \in Runs |-> LocInit(MainArgs)]
    /\ sink = <<>>
    /\ ver = [pc |-> "off"]
    /\ hist = HistInit(Runs, tenant)

Next == \E p \in Runs : MainStep(p) \/ EnsureStep(p)

Spec == Init /\ [][Next]_vars

(***************************************************************************)
(* SpecVerify: one bootstrap run, the verifier, and edits by hand          *)
(***************************************************************************)

\* The bootstrap run of this specification.
Bootstrap == 1

\* The tenants the run and the verifier start on: no definition, or ours in
\* each of its forms.
VerifyTenantInits ==
    Tenants({<<>>} \cup {<<OtherRs, o>> : o \in OurRsInits}, ClientGrantStates)

InitVerify ==
    /\ rq = RqIdle
    /\ tenant \in VerifyTenantInits
    /\ pc = [p \in {Bootstrap} |-> "idle"]
    /\ loc = [p \in {Bootstrap} |-> LocInit(MainArgs)]
    /\ sink = <<>>
    /\ ver = VerInit
    /\ hist = HistInit({Bootstrap}, tenant)

NextVerify ==
    \/ MainStep(Bootstrap) \/ EnsureStep(Bootstrap)
    \/ VerStep
    \/ Drift

SpecVerify == InitVerify /\ [][NextVerify]_vars

(***************************************************************************)
(* Bootstrap runs: checks                                                  *)
(***************************************************************************)

NamedClients(t, name) == {i \in 1..Len(t.clients) : t.clients[i].name = name}

\* Run 2 started after run 1 had ended, both returned 0, and the tenant had
\* no client of the configured name before them.
TwoConsecutiveRuns ==
    /\ pc[1] = "done"
    /\ pc[2] = "done"
    /\ 1 \in hist.doneBefore[2]
    /\ NamedClients(hist.init, M2mName) = {}

\* C5: over two consecutive runs on a tenant without a client of the name,
\* the sink is invoked exactly once, by the first run, which created the
\* client (POST clients), with the client id and the secret of that client;
\* the second run updates the client (PATCH, no POST) and invokes nothing.
C5_SecretSyncedOnce ==
    TwoConsecutiveRuns
      => /\ Len(sink) = 1
         /\ sink[1].run = 1
         /\ DOMAIN sink[1].secrets = {"AUTH0_CLIENT_ID", "AUTH0_CLIENT_SECRET"}
         /\ \E i \in NamedClients(tenant, M2mName) :
              /\ sink[1].secrets.AUTH0_CLIENT_ID = tenant.clients[i].client_id
              /\ sink[1].secrets.AUTH0_CLIENT_SECRET
                   = tenant.clients[i].client_secret
         /\ Req("POST", "clients") \in Range(hist.methods[1])
         /\ Req("PATCH", "clients") \in Range(hist.methods[2])
         /\ Req("POST", "clients") \notin Range(hist.methods[2])

C5_Witness ==
    /\ TwoConsecutiveRuns
    /\ Len(sink) = 1

\* One definition with the identifier, one client with the name, one grant
\* for (client, audience), each with exactly the desired scopes.
Converged(t) ==
    /\ Cardinality({i \in 1..Len(t.rs) : t.rs[i].identifier = Audience}) = 1
    /\ RsScopesOf(t, Audience) = {DEFAULT_SCOPES}
    /\ Cardinality(NamedClients(t, M2mName)) = 1
    /\ \A i \in NamedClients(t, M2mName) :
         /\ Cardinality({k \in 1..Len(t.grants) :
                           /\ t.grants[k].client_id = t.clients[i].client_id
                           /\ t.grants[k].audience = Audience}) = 1
         /\ GrantScopesOf(t, t.clients[i].client_id, Audience)
              = {ScopeValues(DEFAULT_SCOPES)}

\* Every run has ended and none was made to fail by a request that raised
\* for a reason of its own.
AllRunsEnded ==
    /\ \A r \in Runs : pc[r] \in Terminal
    /\ \A r \in Runs : ~hist.faults[r]

\* C6: however the requests of the concurrent runs interleave, when the
\* runs have ended the tenant is in the state a single run produces: one
\* definition, one client, one grant, each with exactly the desired scopes.
C6_ConcurrentRunsConverge == AllRunsEnded => Converged(tenant)

\* The same of runs that follow one another.
SequentialRunsConverge ==
    (AllRunsEnded /\ \A r \in Runs : r > 1 => (r - 1) \in hist.doneBefore[r])
      => Converged(tenant)

(***************************************************************************)
(* Verifier: checks                                                        *)
(***************************************************************************)

AllResultsPassed == \A i \in 1..Len(ver.results) : ver.results[i].passed

\* The verifier started on the tenant as a bootstrap run that returned 0
\* left it, the tenant stayed so through its checks, and its reads were
\* answered.
VerifiedAfterBootstrap ==
    /\ ver.pc \in {"print", "done"}
    /\ ver.from # 0
    /\ ver.stable
    /\ ~ver.readErr

C8_VerifierReadOnly ==
    /\ [](\A k \in 1..Len(ver.methods) : ver.methods[k].method = "GET")
    /\ [][ver' # ver => tenant' = tenant]_vars

C8_Witness ==
    /\ ver.pc = "done"
    /\ Len(ver.methods) = 5
    /\ ~AllResultsPassed

CheckNames == <<"API Exists", "API Scopes", "M2M App Exists", "Client Grant">>

\* C9: run_all_checks returns four results, API Exists, API Scopes, M2M App
\* Exists, Client Grant in this order, whatever the earlier checks reported.
C9_AllFourChecks ==
    ver.pc \in {"print", "done"}
      => [i \in 1..Len(ver.results) |-> ver.results[i].name] = CheckNames

C9_Witness ==
    /\ ver.pc = "print"
    /\ Len(ver.results) = 4
    /\ ~ver.results[1].passed
    /\ ver.results[3].passed

\* C10: the verifier exits 0 exactly when every one of the four checks
\* passed, and 1 when any of them failed.
C10_ExitIsConjunction ==
    ver.pc = "done"
      => /\ ver.exit \in {0, 1}
         /\ (ver.exit = 0) <=> AllResultsPassed
         /\ (\E i \in 1..Len(ver.results) : ~ver.results[i].passed)
              => ver.exit = 1

C10_Witness ==
    /\ ver.pc = "done"
    /\ ver.exit = 1
    /\ Len(ver.results) = 4
    /\ \A i \in 1..3 : ver.results[i].passed
    /\ ~ver.results[4].passed

(***************************************************************************)
(* SpecChecks: the verifier over tenants of every scope list               *)
(***************************************************************************)

\* Scope value lists a definition or a grant can carry: every selection of
\* the expected scopes, with or without a scope added by hand, and the
\* expected scopes in another order.
CheckScopeLists ==
    {SelectSeq(EXPECTED_SCOPES \o <<"legacy:admin">>, LAMBDA v : v \in S) :
        S \in SUBSET (Range(EXPECTED_SCOPES) \cup {"legacy:admin"})}
    \cup {<<"read:metrics", "replay:transactions", "read:results",
            "execute:rules">>}

\* The scopes of a definition, {"value": .., "description": ..} each.
AsScopes(values) ==
    [i \in 1..Len(values) |-> [value |-> values[i], description |-> ""]]

CheckTenantInits ==
    Tenants({<<OtherRs>>}
              \cup {<<OtherRs, RsObject(2, Audience, ApiName, AsScopes(v),
                                        "RS256", 7200, TRUE)>> :
                       v \in CheckScopeLists},
            {[clients |-> <<OtherClient>>, grants |-> <<>>],
             [clients |-> <<OtherClient, ClientObject(2, M2mName, "non_interactive")>>,
              grants |-> <<>>]}
              \cup {[clients |-> <<OtherClient,
                                   ClientObject(2, M2mName, "non_interactive")>>,
                      grants |-> <<GrantObject(1, 2, Audience, v)>>] :
                       v \in CheckScopeLists})

InitChecks ==
    /\ rq = RqIdle
    /\ tenant \in CheckTenantInits
    /\ pc = <<>>
    /\ loc = <<>>
    /\ sink = <<>>
    /\ ver = Patched(VerInit, [errs |-> <<>>])
    /\ hist = HistInit({}, tenant)

NextChecks == VerStep

SpecChecks == InitChecks /\ [][NextChecks]_vars

\* The scope values of our definition and of the grant of our client, as
\* sets of lists: empty when there is no such object.
RemoteApiScopes(t) == {ScopeValues(sc) : sc \in RsScopesOf(t, Audience)}
RemoteGrantScopes(t) ==
    UNION {GrantScopesOf(t, t.clients[i].client_id, Audience) :
             i \in NamedClients(t, M2mName)}

\* The result passes exactly when the remote list has every expected
\* scope, and its missing list is the expected scopes the remote list lacks,
\* each once.
SupersetChecked(result, remote) ==
    /\ result.passed <=> Range(EXPECTED_SCOPES) \subseteq Range(remote)
    /\ Range(result.missing) = Range(EXPECTED_SCOPES) \ Range(remote)
    /\ Len(result.missing) = Cardinality(Range(result.missing))

\* C11: with the definition there and the read answered, API Scopes passes
\* if and only if every expected scope is in the definition's scope list,
\* whatever else the list holds, and reports as missing exactly the expected
\* scopes the list lacks; the same of Client Grant and the grant's list,
\* with the client found and the grants read.
C11_ScopesCheckedAsSuperset ==
    /\ (Len(ver.results) >= 2 /\ ver.results[2].kind # "error")
         => \A remote \in RemoteApiScopes(tenant) :
              SupersetChecked(ver.results[2], remote)
    /\ (Len(ver.results) = 4 /\ ver.results[4].kind \notin {"error", "no_client"})
         => \A remote \in RemoteGrantScopes(tenant) :
              SupersetChecked(ver.results[4], remote)

\* The definition has every expected scope and one more, and passes; the
\* grant lacks read:metrics and has one more, and fails with that missing.
C11_Witness ==
    /\ Len(ver.results) = 4
    /\ \E remote \in RemoteApiScopes(tenant) : "legacy:admin" \in Range(remote)
    /\ ver.results[2].passed
    /\ \E remote \in RemoteGrantScopes(tenant) : "legacy:admin" \in Range(remote)
    /\ ~ver.results[4].passed
    /\ ver.results[4].missing = <<"read:metrics">>

\* Tenant t with the scope list of our definition replaced by values.
WithApiScopes(t, values) ==
    [t EXCEPT !.rs = [i \in 1..Len(t.rs) |->
                        IF t.rs[i].identifier = Audience
                        THEN [t.rs[i] EXCEPT !.scopes = AsScopes(values)]
                        ELSE t.rs[i]]]

\* What Client Grant returns on tenant t with every read answered.
ClientGrantOn(t) ==
    LET client == find_m2m_client(t.clients, M2mName, "ok")
    IN  IF Len(client) = 0 THEN verify_client_grant_no_client
        ELSE verify_client_grant(
                 list_client_grants(t.grants, client[1].client_id), Audience, "ok")

\* The four results are in and every read was answered.
ChecksAnswered ==
    /\ Len(ver.results) = 4
    /\ ~ver.readErr

Passed == [i \in 1..Len(ver.results) |-> ver.results[i].passed]

\* C17: the API Exists, M2M App Exists and Client Grant results of a
\* verifier run are the ones the checks return on every tenant that differs
\* from this one only in the scope list of the definition; with the four
\* expected scopes in definition and grant all four checks pass with nothing
\* missing, and with read:metrics taken out of the definition only API
\* Scopes fails, with missing = [read:metrics].
C17_OnlyApiScopesSeesApiScopes ==
    ChecksAnswered
      => /\ \A v \in CheckScopeLists :
              LET u == WithApiScopes(tenant, v)
              IN  /\ ver.results[1] = verify_api_exists(u.rs, Audience, "ok")
                  /\ ver.results[3]
                       = verify_m2m_app_exists(
                             find_m2m_client(u.clients, M2mName, "ok"))
                  /\ ver.results[4] = ClientGrantOn(u)
         /\ (/\ RemoteApiScopes(tenant) = {EXPECTED_SCOPES}
             /\ RemoteGrantScopes(tenant) = {EXPECTED_SCOPES})
              => /\ Passed = <<TRUE, TRUE, TRUE, TRUE>>
                 /\ \A i \in 1..4 : ver.results[i].missing = <<>>
         /\ (/\ RemoteApiScopes(tenant) = {SubSeq(EXPECTED_SCOPES, 1, 3)}
             /\ RemoteGrantScopes(tenant) = {EXPECTED_SCOPES})
              => /\ Passed = <<TRUE, FALSE, TRUE, TRUE>>
                 /\ ver.results[2].missing = <<"read:metrics">>

\* The definition lacks read:metrics, the grant has the four scopes, and
\* the verifier has exited 1.
C17_Witness ==
    /\ ChecksAnswered
    /\ ver.pc = "done"
    /\ ver.exit = 1
    /\ RemoteApiScopes(tenant) = {SubSeq(EXPECTED_SCOPES, 1, 3)}
    /\ RemoteGrantScopes(tenant) = {EXPECTED_SCOPES}

(***************************************************************************)
(* SpecEnv: the environment of the two scripts                             *)
(*                                                                         *)
(* hist.env.run and hist.env.ver are the environments the bootstrap and    *)
(* the verifier are started in; both start at "env", before anything else. *)
(***************************************************************************)

RequiredVars ==
    <<"AUTH0_MGMT_DOMAIN", "AUTH0_MGMT_CLIENT_ID", "AUTH0_MGMT_CLIENT_SECRET",
      "AUTH0_AUDIENCE">>

\* os.getenv(name): None for an unset variable, else its value.
EnvValues == {None, "", "set"}
Envs == [Range(RequiredVars) -> EnvValues]

\* A test that takes an empty value for a value.
required_env_unset_only(env, name) == env[name] # None

\* _required_env: TRUE when it returns, FALSE when `not value` makes it
\* raise SystemExit("Missing required env var: ..."), which exits 1.
required_env(env, name) == env[name] # None /\ env[name] # ""

\* load_settings returns: each of its four _required_env calls did.
load_settings(env) ==
    \A i \in 1..Len(RequiredVars) : required_env(env, RequiredVars[i])

\* missing of verify_auth0.main: the variables with `not value`.
verify_missing(env) ==
    SelectSeq(RequiredVars, LAMBDA n : env[n] = None \/ env[n] = "")

\* main of setup_auth0.py: parse_args, then settings = load_settings().
MainLoadSettings(p) ==
    /\ pc[p] = "env"
    /\ pc' = [pc EXCEPT ![p] = IF load_settings(hist.env.run) THEN "idle"
                                ELSE "crashed"]
    /\ UNCHANGED <<rq, tenant, loc, sink, ver, hist>>

\* main of verify_auth0.py: `if missing: print(...); sys.exit(1)`.
VerEnv ==
    /\ ver.pc = "env"
    /\ ver' = IF verify_missing(hist.env.ver) = <<>>
              THEN [ver EXCEPT !.pc = "idle"]
              ELSE [ver EXCEPT !.pc = "aborted", !.exit = 1]
    /\ UNCHANGED <<rq, tenant, pc, loc, sink, hist>>

\* The tenants the scripts are started on: an empty one and one set up by
\* hand long ago.
EnvTenantInits ==
    {EmptyTenant,
     [rs |-> <<OtherRs, RsObject(2, Audience, "Rule Engine (old)", StaleScopes,
                                 "HS256", 86400, FALSE)>>,
      clients |-> <<OtherClient, ClientObject(2, M2mName, "regular_web")>>,
      grants |-> <<GrantObject(1, 2, Audience, ScopeValues(StaleScopes))>>]}

InitEnv ==
    /\ rq = RqIdle
    /\ tenant \in EnvTenantInits
    /\ pc = [p \in {Bootstrap} |-> "env"]
    /\ loc = [p \in {Bootstrap} |-> LocInit(MainArgs)]
    /\ sink = <<>>
    /\ ver = [VerInit EXCEPT !.pc = "env"]
    /\ \E e1, e2 \in Envs :
         hist = Patched(HistInit({Bootstrap}, tenant),
                        [env |-> [run |-> e1, ver |-> e2]])

NextEnv ==
    \/ MainLoadSettings(Bootstrap)
    \/ MainStep(Bootstrap) \/ EnsureStep(Bootstrap)
    \/ VerEnv
    \/ VerStep

SpecEnv == InitEnv /\ [][NextEnv]_vars

\* One of the four required variables is unset or empty.
EnvMissing(env) ==
    \E i \in 1..Len(RequiredVars) : env[RequiredVars[i]] \in {None, ""}

\* C12: started with one of the four required variables unset or empty, the
\* bootstrap ends with exit code 1 without having reached its token request
\* or sent any management API request, and so does the verifier.
C12_MissingEnvExitsBeforeNetwork ==
    /\ EnvMissing(hist.env.run)
         => /\ pc[Bootstrap] \in {"env", "crashed"}
            /\ pc[Bootstrap] = "crashed" => ExitCode(Bootstrap) = 1
            /\ hist.methods[Bootstrap] = <<>>
            /\ tenant = hist.init
    /\ EnvMissing(hist.env.ver)
         => /\ ver.pc \in {"env", "aborted"}
            /\ ver.pc = "aborted" => ver.exit = 1
            /\ ver.methods = <<>>

\* The bootstrap started with an empty client secret, the verifier without
\* an audience, everything else set: both have exited.
C12_Witness ==
    /\ hist.env.run = [n \in Range(RequiredVars) |->
                         IF n = "AUTH0_MGMT_CLIENT_SECRET" THEN "" ELSE "set"]
    /\ hist.env.ver = [n \in Range(RequiredVars) |->
                         IF n = "AUTH0_AUDIENCE" THEN None ELSE "set"]
    /\ pc[Bootstrap] = "crashed"
    /\ ver.pc = "aborted"
    /\ ver.exit = 1

(***************************************************************************)
(* The secret sink and the console: checks                                 *)
(***************************************************************************)

\* The object with this id is in the tenant with the desired scopes.
RsReconciled(t, id) ==
    \E i \in 1..Len(t.rs) :
        /\ t.rs[i].id = id
        /\ t.rs[i].identifier = Audience
        /\ t.rs[i].scopes = DEFAULT_SCOPES
GrantReconciled(t, id, client_id) ==
    \E i \in 1..Len(t.grants) :
        /\ t.grants[i].id = id
        /\ t.grants[i].client_id = client_id
        /\ t.grants[i].audience = Audience
        /\ t.grants[i].scope = ScopeValues(DEFAULT_SCOPES)

\* C13: a push to the secret store that fails (non-zero return code,
\* timeout, no command) returns false and raises nothing: the run that made
\* it has returned 0, and the definition, the client and the grant its three
\* operations returned are in the tenant with the desired scopes.
C13_SyncFailureNotFatal ==
    \A k \in 1..Len(sink) :
        sink[k].outcome # "synced"
          => LET p == sink[k].run
             IN  /\ ~sink[k].ok
                 /\ pc[p] = "done"
                 /\ ExitCode(p) = 0
                 /\ RsReconciled(tenant, loc[p].rs[1].id)
                 /\ ClientIndex(tenant, loc[p].m2m[1].client_id) # 0
                 /\ GrantReconciled(tenant, loc[p].grant[1].id,
                                    loc[p].m2m[1].client_id)

\* The push of the run that created the client on an empty tenant timed
\* out; both runs have returned 0.
C13_Witness ==
    /\ hist.init = EmptyTenant
    /\ Len(sink) = 1
    /\ sink[1].outcome = "timeout"
    /\ \A p \in Runs : pc[p] = "done"

\* What the lines a run has written to its console show, by the names of
\* the data interpolated into them (--verbose given): the ids and names of
\* the objects its operations returned (lines 272-324), the lines of
\* sync_secrets_to_doppler, and the message of an exception that ended it
\* (an httpx error names the URL and the status).
Console(p) ==
    (IF Len(loc[p].rs) = 1 THEN {"id", "identifier"} ELSE {})
    \cup (IF Len(loc[p].m2m) = 1 THEN {"client_id", "name"} ELSE {})
    \cup (IF Len(loc[p].grant) = 1 THEN {"id", "client_id"} ELSE {})
    \cup UNION {sink[k].shows : k \in {j \in 1..Len(sink) : sink[j].run = p}}
    \cup (IF pc[p] \in {"raised", "crashed"} THEN {"url", "status"} ELSE {})

\* The data that are secrets: the secret of the M2M client, as the tenant
\* answers it and as main hands it to the sink, and the management client
\* secret of the settings.
SecretNames ==
    {"client_secret", "AUTH0_CLIENT_SECRET", "AUTH0_MGMT_CLIENT_SECRET"}

\* C14: on every path of a bootstrap run, failures and timeouts of the
\* secret sync included, no line on its console shows the M2M client secret
\* or the management client secret.
C14_NoSecretOnConsole ==
    \A p \in DOMAIN pc : Console(p) \cap SecretNames = {}

(***************************************************************************)
(* Bootstrap runs: nothing is deleted                                      *)
(***************************************************************************)

\* Every definition, client and grant of tenant t is in tenant u, under the
\* same id and natural key.
AllKept(t, u) ==
    /\ \A i \in 1..Len(t.rs) :
         \E j \in 1..Len(u.rs) : /\ u.rs[j].id = t.rs[i].id
                                 /\ u.rs[j].identifier = t.rs[i].identifier
    /\ \A i \in 1..Len(t.clients) :
         \E j \in 1..Len(u.clients) :
             /\ u.clients[j].client_id = t.clients[i].client_id
             /\ u.clients[j].name = t.clients[i].name
    /\ \A i \in 1..Len(t.grants) :
         \E j \in 1..Len(u.grants) :
             /\ u.grants[j].id = t.grants[i].id
             /\ u.grants[j].client_id = t.grants[i].client_id
             /\ u.grants[j].audience = t.grants[i].audience

\* C15: whatever the bootstrap runs have done so far, every definition,
\* client and grant the tenant had before them is still there, and every
\* request they have sent is a GET, a POST or a PATCH.
C15_NeverDeletes ==
    /\ AllKept(hist.init, tenant)
    /\ \A p \in DOMAIN pc : Methods(p) \subseteq {"GET", "POST", "PATCH"}

\* Runs that found a definition and a client set up by hand with a drifted
\* grant, updated all three and returned 0.
C15_Witness ==
    /\ Len(hist.init.rs) = 2
    /\ Len(hist.init.grants) = 1
    /\ hist.init.grants[1].scope = ScopeValues(StaleScopes)
    /\ \A p \in Runs : pc[p] = "done" /\ "PATCH" \in Methods(p)
    /\ tenant # hist.init

(***************************************************************************)
(* SpecResume: runs that follow one another, any of them cut short         *)
(***************************************************************************)

\* A run that has ended, by returning, by an exception or by an interrupt.
Ended == Terminal \cup {"interrupted"}

\* The process is interrupted (KeyboardInterrupt, kill) between two of its
\* steps: whatever its requests did to the tenant stays, what it held in its
\* variables is gone. hist.doneTenant[p] keeps the tenant it leaves.
Interrupt(p) ==
    /\ pc[p] \notin Ended \cup {"idle"}
    /\ pc' = [pc EXCEPT ![p] = "interrupted"]
    /\ hist' = [hist EXCEPT !.doneTenant[p] = <<tenant>>]
    /\ UNCHANGED <<rq, tenant, loc, sink, ver>>

InitResume ==
    /\ rq = RqIdle
    /\ tenant \in RunTenantInits
    /\ pc = [p \in Runs |-> "idle"]
    /\ loc = [p \in Runs |-> LocInit(MainArgs)]
    /\ sink = <<>>
    /\ ver = [pc |-> "off"]
    /\ hist = HistInit(Runs, tenant)

\* A run starts when the one before it has ended.
NextResume ==
    \E p \in Runs :
        /\ \A q \in Runs : q < p => pc[q] \in Ended
        /\ \/ MainStep(p)
           \/ EnsureStep(p)
           \/ Interrupt(p)

SpecResume == InitResume /\ [][NextResume]_vars

\* The tenant after ensure_resource_server, ensure_m2m_client and
\* ensure_client_grant, called as main calls them, each request answered.
AfterEnsureRsWith(t, a) ==
    LET existing == find_resource_server_by_identifier(t.rs, a.identifier)
    IN  IF Len(existing) = 0
        THEN [t EXCEPT !.rs = Append(@,
                 Patched([id |-> Len(t.rs) + 1],
                         create_resource_server_body(a.name, a.identifier,
                                                     a.scopes)))]
        ELSE [t EXCEPT !.rs[RsIndex(t, existing[1].id)] =
                 Patched(@, update_resource_server_body(existing[1], a.name,
                                                        a.scopes))]
AfterEnsureRs(t) == AfterEnsureRsWith(t, MainArgs)
AfterEnsureM2m(t) ==
    LET existing == find_client_by_name(t.clients, M2mName).found
        id == Len(t.clients) + 1
    IN  IF Len(existing) = 0
        THEN [t EXCEPT !.clients = Append(@,
                 Patched([client_id |-> id, client_secret |-> SecretOf(id)],
                         create_client_body(M2mName, "non_interactive",
                                            m2m_payload)))]
        ELSE [t EXCEPT !.clients[ClientIndex(t, existing[1].client_id)] =
                 Patched(@, m2m_payload)]
AfterEnsureGrant(t, client_id) ==
    LET existing == find_grant_by_audience(
                        list_client_grants(t.grants, client_id), Audience)
    IN  IF Len(existing) = 0
        THEN [t EXCEPT !.grants = Append(@,
                 Patched([id |-> Len(t.grants) + 1],
                         create_client_grant_body(client_id, Audience,
                                                  ScopeValues(DEFAULT_SCOPES))))]
        ELSE [t EXCEPT !.grants[GrantIndex(t, existing[1].id)] =
                 Patched(@, update_client_grant_body(
                                existing[1], ScopeValues(DEFAULT_SCOPES)))]

\* m2m_client["client_id"] of the client ensure_m2m_client returns on t.
ReturnedClientId(t) ==
    LET existing == find_client_by_name(t.clients, M2mName).found
    IN  IF Len(existing) = 0 THEN Len(t.clients) + 1
        ELSE existing[1].client_id

\* The tenant one uninterrupted run leaves when started on t.
Reconciled(t) ==
    LET u == AfterEnsureRs(t)
    IN  AfterEnsureGrant(AfterEnsureM2m(u), ReturnedClientId(u))

\* The objects of tenant t that have the form they have in tenant u are in
\* tenant v in that form.
ConvergedKept(t, u, v) ==
    /\ \A i \in 1..Len(t.rs) : t.rs[i] = u.rs[i] => v.rs[i] = t.rs[i]
    /\ \A i \in 1..Len(t.clients) :
         t.clients[i] = u.clients[i] => v.clients[i] = t.clients[i]
    /\ \A i \in 1..Len(t.grants) :
         t.grants[i] = u.grants[i] => v.grants[i] = t.grants[i]

\* Run p has returned 0 after an earlier run was cut short.
ResumedBy(p) ==
    /\ pc[p] = "done"
    /\ \E q \in Runs : q < p /\ pc[q] \in Ended \ {"done"}

\* C16: when a run has returned 0 after an earlier run stopped part-way (an
\* interrupt or a fatal error, after any number of its steps), the tenant
\* is the one an uninterrupted run leaves when started on the initial
\* tenant, no two objects share a key, and each object the stopped run left
\* in its final form is unchanged.
C16_ResumeAfterInterrupt ==
    \A p \in Runs :
        ResumedBy(p)
          => /\ tenant = Reconciled(hist.init)
             /\ NoDuplicateKeys(tenant)
             /\ \A q \in Runs :
                  (q < p /\ pc[q] = "interrupted")
                    => ConvergedKept(hist.doneTenant[q][1],
                                     Reconciled(hist.init), tenant)

\* Run 1 created the definition and the client on an empty tenant and was
\* interrupted before the grant; run 2 updated both, created the grant and
\* returned 0.
C16_Witness ==
    /\ hist.init = EmptyTenant
    /\ pc[1] = "interrupted"
    /\ Len(hist.doneTenant[1][1].clients) = 1
    /\ hist.doneTenant[1][1].grants = <<>>
    /\ pc[2] = "done"
    /\ Req("PATCH", "clients") \in Range(hist.methods[2])
    /\ Req("POST", "client-grants") \in Range(hist.methods[2])

(***************************************************************************)
(* SpecFind: ensure_m2m_client over long client listings                   *)
(***************************************************************************)

\* The most clients a tenant of this specification holds: two full pages
\* and one more.
MaxClients == 101

\* n clients in listing order, those at positions i and j (from 1) with the
\* configured name.
Listing(n, i, j) ==
    [k \in 1..n |->
        ClientObject(k, IF k = i \/ k = j THEN M2mName ELSE "Default App",
                     "non_interactive")]

\* The lengths of the listings: up to MaxClients, those that end at, one
\* after or one before the end of a page.
ListingSizes == {n \in 0..MaxClients : n % per_page \in {0, 1, per_page - 1}}

\* The listings: without a match (i = 0), with one (j = 0), and with a second
\* one at the end.
InitFind ==
    /\ rq = RqIdle
    /\ \E n \in ListingSizes :
         \E i \in 0..n :
           \E j \in (IF i = 0 \/ i = n THEN {0} ELSE {0, n}) :
             tenant = [rs |-> <<>>, clients |-> Listing(n, i, j),
                       grants |-> <<>>]
    /\ pc = [p \in {Caller} |-> "cl_find"]
    /\ loc = [p \in {Caller} |-> LocInit(MainArgs)]
    /\ sink = <<>>
    /\ ver = [pc |-> "off"]
    /\ hist = [HistInit({Caller}, EmptyTenant) EXCEPT !.calls = 1]

NextFind ==
    \/ EnsureM2mFind(Caller)
    \/ EnsureM2mCreate(Caller)
    \/ EnsureM2mUpdate(Caller)

SpecFind == InitFind /\ [][NextFind]_vars

\* Position (from 1) of the first client of the name in listing order, 0
\* when there is none.
FirstMatch(t) == FirstIndex(NamedClients(t, M2mName))

\* find_client_by_name has returned a client.
FoundClient == pc[Caller] = "cl_update"

\* C20: find_client_by_name returns the first client of the name in listing
\* order, having fetched the pages up to the one that holds it and no page
\* after: floor(i / 50) + 1 fetches for a first match at position i counted
\* from 0, which is ceil(N / 50) when the match is on the last page of N
\* clients and less when it is on an earlier one.
C20_FetchesUpToMatch ==
    FoundClient
      => LET i == FirstMatch(tenant) - 1
             n == Len(tenant.clients)
             fetches == Len(hist.methods[Caller])
         IN  /\ i >= 0
             /\ loc[Caller].existing[1].client_id = tenant.clients[i + 1].client_id
             /\ fetches = (i \div 50) + 1
             /\ Range(hist.methods[Caller]) = {Req("GET", "clients")}
             /\ (i \div 50 = (n - 1) \div 50) => fetches = (n + 49) \div 50
             /\ (i \div 50 < (n - 1) \div 50) => fetches < (n + 49) \div 50

\* 101 clients, the first of the name at position 50 from 0 (the first of
\* the second page) and another on the third page: two fetches.
C20_Witness ==
    /\ FoundClient
    /\ Len(tenant.clients) = 101
    /\ FirstMatch(tenant) = 51
    /\ Cardinality(NamedClients(tenant, M2mName)) = 2
    /\ Len(hist.methods[Caller]) = 2

\* find_client_by_name has returned None.
FoundNone == pc[Caller] = "cl_create"

\* C21: on a listing of N clients none of which has the name,
\* find_client_by_name returns None after floor(N / 50) + 1 page fetches: it
\* goes on after every full page of 50 and stops at the first page of fewer
\* than 50 clients, an empty one included.
C21_NoMatchFetches ==
    /\ FoundNone
         => LET n == Len(tenant.clients)
                fetches == Len(hist.methods[Caller])
            IN  /\ NamedClients(tenant, M2mName) = {}
                /\ loc[Caller].existing = <<>>
                /\ fetches = (n \div 50) + 1
                /\ Range(hist.methods[Caller]) = {Req("GET", "clients")}
                /\ (n % 50 = 0) => fetches = ((n + 49) \div 50) + 1
    /\ (pc[Caller] \in {"cl_create", "cl_update"})
         => (FoundNone <=> NamedClients(tenant, M2mName) = {})

\* 100 clients, none of the name: two full pages and an empty third one.
C21_Witness ==
    /\ FoundNone
    /\ Len(tenant.clients) = 100
    /\ Len(hist.methods[Caller]) = 3


(***************************************************************************)
(* Bootstrap runs: the order of the steps                                  *)
(***************************************************************************)

\* The step of main a management API request belongs to, by its path.
StepRank(path) ==
    CASE path = "resource-servers" -> 1
      [] path = "clients" -> 2
      [] path = "client-grants" -> 3

\* The steps of the requests run p has sent, in the order sent.
StepsOf(p) == [k \in 1..Len(hist.methods[p]) |-> StepRank(hist.methods[p][k].path)]

\* Run p has invoked the secret sink.
Synced(p) == \E k \in 1..Len(sink) : sink[k].run = p

\* The objects the operations of run p returned are in the tenant as
\* returned (a client without regard to its secret, which only the answer
\* to its creation carries).
ReturnedKept(p) ==
    /\ Len(loc[p].rs) = 1 => \E i \in 1..Len(tenant.rs) : tenant.rs[i] = loc[p].rs[1]
    /\ Len(loc[p].m2m) = 1
         => \E i \in 1..Len(tenant.clients) :
               WithoutSecret(tenant.clients[i]) = WithoutSecret(loc[p].m2m[1])
    /\ Len(loc[p].grant) = 1
         => \E i \in 1..Len(tenant.grants) : tenant.grants[i] = loc[p].grant[1]

\* C22: a run sends nothing before its token request has returned; its
\* requests come in the order definition, client, grant, and the sink is
\* invoked after them; a step starts only when the one before has returned
\* its object; the grant requests carry the client_id of the client
\* returned; a run ended by a fatal error sends nothing more, has issued no
\* request of a later step and no sink call, the step that ended it left
\* the tenant as it was, and the objects its earlier steps returned are in
\* the tenant as returned.
C22_StepOrder ==
    /\ [](\A p \in Runs :
            LET steps == StepsOf(p)
                sent == Range(steps)
            IN  /\ pc[p] \in {"idle", "token"} => steps = <<>> /\ ~Synced(p)
                /\ \A i \in 1..(Len(steps) - 1) : steps[i] <= steps[i + 1]
                /\ 2 \in sent => Len(loc[p].rs) = 1
                /\ 3 \in sent
                     => /\ Len(loc[p].m2m) = 1
                        /\ loc[p].args.client_id = loc[p].m2m[1].client_id
                /\ Len(loc[p].grant) = 1
                     => loc[p].grant[1].client_id = loc[p].m2m[1].client_id
                /\ Synced(p) => Len(loc[p].grant) = 1 /\ pc[p] = "done"
                /\ pc[p] \in {"raised", "crashed"}
                     => /\ ~Synced(p)
                        /\ Len(loc[p].rs) = 0 => sent \subseteq {1}
                        /\ Len(loc[p].m2m) = 0 => sent \subseteq {1, 2}
                        /\ ReturnedKept(p))
    /\ [][\A p \in Runs :
            /\ pc[p] \in Terminal
                 => /\ pc'[p] = pc[p]
                    /\ hist'.methods[p] = hist.methods[p]
                    /\ Synced(p)' = Synced(p)
            /\ (pc'[p] \in {"raised", "crashed"} /\ pc[p] # pc'[p])
                 => tenant' = tenant]_vars

\* On an empty tenant a run created the definition and the client, its
\* grant request raised, and the other run went on.
C22_Witness ==
    /\ hist.init = EmptyTenant
    /\ pc[1] = "raised"
    /\ Len(loc[1].rs) = 1
    /\ Len(loc[1].m2m) = 1
    /\ Len(loc[1].grant) = 0
    /\ 3 \in Range(StepsOf(1))
    /\ Len(tenant.grants) = 1


(***************************************************************************)
(* Verifier: reads that fail                                               *)
(***************************************************************************)

\* C23: a check whose management API read ended in an error status or a
\* connection failure returns passed = false with an error message; the
\* verifier still runs the checks after it, and ends with four results.
C23_ReadErrorsReported ==
    /\ \A i \in 1..Len(ver.results) :
         ver.errs[i] => /\ ~ver.results[i].passed
                        /\ ver.results[i].kind = "error"
    /\ ver.pc \in {"print", "done"} => Len(ver.results) = 4


(***************************************************************************)
(* The console after a failed push                                         *)
(***************************************************************************)

\* The pushes that failed: the sink invocations that did not end in a
\* return code of 0. Only a run that created the client invokes the sink.
FailedPushes == {k \in 1..Len(sink) : sink[k].outcome # "synced"}

\* C24 as stated: after a failed push, the console of the run that made it
\* shows the client secret it captured.
C24_SecretVisibleAfterFailedPush ==
    \A k \in FailedPushes :
        "AUTH0_CLIENT_SECRET" \in DOMAIN sink[k].secrets
          => "AUTH0_CLIENT_SECRET" \in Console(sink[k].run)

\* C24 as amended: after a failed push, the run that made it held the
\* secret of the client it created, and its console shows the secret
\* exactly when the push failed by timeout (the warning then prints the
\* command line); after a non-zero return code it shows the command's
\* stderr and after a missing command the file name, and no line of the
\* run itself prints the secret.
C24_SecretVisibleOnlyAfterTimeout ==
    \A k \in FailedPushes :
        LET p == sink[k].run
        IN  /\ Req("POST", "clients") \in Range(hist.methods[p])
            /\ "AUTH0_CLIENT_SECRET" \in DOMAIN sink[k].secrets
            /\ sink[k].secrets.AUTH0_CLIENT_SECRET = loc[p].m2m[1].client_secret
            /\ Console(p) \cap SecretNames
                 = (IF sink[k].outcome = "timeout" THEN {"AUTH0_CLIENT_SECRET"}
                    ELSE {})
            /\ sink[k].outcome = "nonzero" => "stderr" \in Console(p)
            /\ sink[k].outcome = "not_found" => "filename" \in Console(p)

\* The push of a run that created the client ended in a non-zero return
\* code; the run has returned 0 and its console shows no secret.
C24_Witness ==
    /\ Len(sink) = 1
    /\ sink[1].outcome = "nonzero"
    /\ pc[sink[1].run] = "done"
    /\ Req("POST", "clients") \in Range(hist.methods[sink[1].run])
    /\ Console(sink[1].run) \cap SecretNames = {}


(***************************************************************************)
(* SpecToken: conftest.py, the token cache of the E2E fixtures             *)
(*                                                                         *)
(* loc.cached_token is the module-level _cached_token; hist.env the        *)
(* environment of the test process; hist.calls the calls of                *)
(* _fetch_auth0_token so far: the cache each found, whether it posted to   *)
(* the token endpoint, how it ended and what it returned.                  *)
(***************************************************************************)

\* How many times the fixtures call _fetch_auth0_token in one process.
MaxFetches == 4

CredentialVars == <<"AUTH0_DOMAIN", "AUTH0_CLIENT_ID", "AUTH0_CLIENT_SECRET">>

\* all([domain, client_id, client_secret])
credentials_configured(env) ==
    \A i \in 1..Len(CredentialVars) :
        env[CredentialVars[i]] # None /\ env[CredentialVars[i]] # ""

\* What httpx.post(.../oauth/token) and the two lines after it end in: a
\* connection failure, an error status (raise_for_status), a body without
\* access_token (KeyError), or a body whose access_token is null or one of
\* two tokens.
TokenOutcomes ==
    {"transport_error", "http_error", "no_access_token", "null", "tok_a",
     "tok_b"}

TokenRaises == {"transport_error", "http_error", "no_access_token"}

\* response.json()["access_token"]
access_token(outcome) == IF outcome = "null" THEN None ELSE outcome

\* An assignment without the `global` statement: the module's cache stays
\* as it was.
cache_store_local(cached, token) == cached

\* _cached_token = response.json()["access_token"]
cache_store(cached, token) == token

FetchCall(cache, requested, result, token) ==
    [cache |-> cache, requested |-> requested, result |-> result,
     token |-> token]

\* if _cached_token is not None: return _cached_token
FetchCached ==
    /\ Len(hist.calls) < MaxFetches
    /\ loc.cached_token # None
    /\ hist' = [hist EXCEPT !.calls = Append(@,
                   FetchCall(loc.cached_token, FALSE, "returned",
                             loc.cached_token))]
    /\ UNCHANGED <<rq, tenant, pc, loc, sink, ver>>

\* if not all([...]): pytest.skip(...), which raises.
FetchSkip ==
    /\ Len(hist.calls) < MaxFetches
    /\ loc.cached_token = None
    /\ ~credentials_configured(hist.env)
    /\ hist' = [hist EXCEPT !.calls = Append(@,
                   FetchCall(None, FALSE, "skipped", None))]
    /\ UNCHANGED <<rq, tenant, pc, loc, sink, ver>>

\* The POST to the token endpoint and what follows it.
FetchRequest ==
    /\ Len(hist.calls) < MaxFetches
    /\ loc.cached_token = None
    /\ credentials_configured(hist.env)
    /\ \E outcome \in TokenOutcomes :
        IF outcome \in TokenRaises
        THEN /\ hist' = [hist EXCEPT !.calls = Append(@,
                            FetchCall(None, TRUE, "raised", None))]
             /\ loc' = loc
        ELSE LET token == access_token(outcome)
             IN  /\ loc' = [loc EXCEPT !.cached_token = cache_store(@, token)]
                 /\ hist' = [hist EXCEPT !.calls = Append(@,
                                FetchCall(None, TRUE, "returned", token))]
    /\ UNCHANGED <<rq, tenant, pc, sink, ver>>

InitToken ==
    /\ rq = RqIdle
    /\ tenant = EmptyTenant
    /\ pc = <<>>
    /\ loc = [cached_token |-> None]
    /\ sink = <<>>
    /\ ver = [pc |-> "off"]
    /\ \E e \in [Range(CredentialVars) -> EnvValues] :
         hist = [env |-> e, calls |-> <<>>]

NextToken == FetchCached \/ FetchSkip \/ FetchRequest

SpecToken == InitToken /\ [][NextToken]_vars

\* The calls that fetched a token: posted to the endpoint and returned one.
SuccessfulFetches ==
    {k \in 1..Len(hist.calls) : /\ hist.calls[k].requested
                                 /\ hist.calls[k].result = "returned"
                                 /\ hist.calls[k].token # None}

\* C25: at most one call of _fetch_auth0_token per process fetches a token
\* from the endpoint; a call posts to the endpoint only when it finds the
\* cache empty; and every call after the one that fetched a token returns
\* that token without a request.
C25_TokenFetchedOnce ==
    /\ Cardinality(SuccessfulFetches) <= 1
    /\ \A k \in 1..Len(hist.calls) :
         hist.calls[k].requested => hist.calls[k].cache = None
    /\ \A j \in SuccessfulFetches :
         \A k \in (j + 1)..Len(hist.calls) :
             /\ ~hist.calls[k].requested
             /\ hist.calls[k].result = "returned"
             /\ hist.calls[k].token = hist.calls[j].token

\* A request that failed, one that fetched a token, and two calls served
\* from the cache.
C25_Witness ==
    /\ Len(hist.calls) = 4
    /\ hist.calls[1].result = "raised"
    /\ SuccessfulFetches = {2}
    /\ hist.calls[4].token = "tok_b"


(***************************************************************************)
(* Runs that follow one another: the secret of the client they create      *)
(***************************************************************************)

\* The clients of the configured name that the runs created: those the
\* tenant did not hold at the start.
CreatedClients ==
    {i \in NamedClients(tenant, M2mName) : i > Len(hist.init.clients)}

\* The secrets handed to the sink so far.
ForwardedSecrets ==
    {sink[k].secrets.AUTH0_CLIENT_SECRET :
        k \in {j \in 1..Len(sink) : "AUTH0_CLIENT_SECRET" \in DOMAIN sink[j].secrets}}

\* Runs end by returning or by a fatal error, and every push succeeded.
NoInterruptSinkWorks ==
    /\ \A q \in Runs : pc[q] # "interrupted"
    /\ \A k \in 1..Len(sink) : sink[k].outcome = "synced"

\* C26: over runs that follow one another, any of them ended by a fatal
\* error at any step, and with a sink that works: once a run has returned
\* 0, the secret of every client the runs created has been handed to the
\* sink.
C26_CreatedSecretForwarded ==
    (NoInterruptSinkWorks /\ \E p \in Runs : pc[p] = "done")
      => \A i \in CreatedClients :
            tenant.clients[i].client_secret \in ForwardedSecrets


(***************************************************************************)
(* SpecLookup: the two client lookups over long client listings            *)
(*                                                                         *)
(* The reconciler's find_client_by_name and the verifier's two calls of    *)
(* _find_m2m_client, on the listings of SpecFind.                          *)
(***************************************************************************)

InitLookup ==
    /\ rq = RqIdle
    /\ \E n \in ListingSizes :
         \E i \in 0..n :
           \E j \in (IF i = 0 \/ i = n THEN {0} ELSE {0, n}) :
             tenant = [rs |-> <<>>, clients |-> Listing(n, i, j),
                       grants |-> <<>>]
    /\ pc = [p \in {Caller} |-> "cl_find"]
    /\ loc = [p \in {Caller} |-> LocInit(MainArgs)]
    /\ sink = <<>>
    /\ ver = [VerInit EXCEPT !.pc = "m2m_exists", !.snap = tenant]
    /\ hist = [HistInit({Caller}, tenant) EXCEPT !.calls = 1]

NextLookup ==
    \/ EnsureM2mFind(Caller)
    \/ VerM2mExists
    \/ VerGrantClient
    \/ VerGrantGet

SpecLookup == InitLookup /\ [][NextLookup]_vars

\* Both lookups have answered: find_client_by_name has returned, the
\* verifier has its M2M App Exists result, and no read of it failed.
LookupsAnswered ==
    /\ pc[Caller] \in {"cl_create", "cl_update"}
    /\ Len(ver.results) >= 1
    /\ ~ver.readErr

\* C27: on one tenant, find_client_by_name returns a client exactly when
\* the verifier's M2M App Exists passes, and the verifier's lookup for the
\* grant finds a client exactly then too, whatever the number of clients.
C27_LookupsAgree ==
    LookupsAnswered
      => /\ ver.results[1].name = "M2M App Exists"
         /\ ver.results[1].passed <=> pc[Caller] = "cl_update"
         /\ ver.pc = "grant_get" => pc[Caller] = "cl_update"
         /\ (Len(ver.results) = 2 /\ ver.results[2].kind = "no_client")
              => pc[Caller] = "cl_create"


(***************************************************************************)
(* ensure_resource_server: create and update compared                      *)
(***************************************************************************)

\* The attributes of a definition: everything but the id the tenant gave it.
RsAttributes(rs) == [f \in DOMAIN rs \ {"id"} |-> rs[f]]

\* The attributes of the definition ensure_resource_server creates on an
\* empty tenant for this desired specification.
CreatedOnEmpty(a) ==
    RsAttributes(AfterEnsureRsWith(EmptyTenant, a).rs[1])

C29_DependentChecksFail ==
    ver.stable
      => /\ (Len(ver.results) >= 2 /\ ~ver.results[1].passed)
              => ~ver.results[2].passed
         /\ (Len(ver.results) = 4 /\ ~ver.results[3].passed)
              => ~ver.results[4].passed


(***************************************************************************)
(* SpecPrompt: main of setup_auth0.py, the prompt before the token request *)
(*                                                                         *)
(* hist.cli.yes is the --yes flag; hist.cli.answer the line the operator   *)
(* types at the prompt, character by character. The run starts at          *)
(* "confirm", with its settings loaded.                                    *)
(***************************************************************************)

\* input() at end of input: EOFError.
EndOfInput == <<"EOF">>

\* Lines an operator can type.
Answers ==
    {<<"y">>, <<"Y">>, <<"y", "e", "s">>, <<"Y", "E", "S">>, <<"Y", "e", "s">>,
     <<" ", "y", "e", "s", " ">>, <<"y", "e", "p">>, <<"y", " ", "e", "s">>,
     <<"y", "e">>, <<"n">>, <<"N", "O">>, <<" ">>, <<>>, EndOfInput}

\* str.strip(): the line without the blanks at its ends.
strip(s) ==
    LET inked == {i \in 1..Len(s) : s[i] # " "}
    IN  IF inked = {} THEN <<>>
        ELSE SubSeq(s, CHOOSE i \in inked : \A j \in inked : i <= j,
                       CHOOSE i \in inked : \A j \in inked : i >= j)

\* str.lower() on the letters of Answers.
lower(s) ==
    [i \in 1..Len(s) |->
        CASE s[i] = "Y" -> "y"
          [] s[i] = "E" -> "e"
          [] s[i] = "S" -> "s"
          [] s[i] = "N" -> "n"
          [] s[i] = "O" -> "o"
          [] OTHER -> s[i]]

\* A test that takes every line beginning with y for a yes.
confirmed_by_first_letter(line) ==
    LET answer == lower(strip(line))
    IN  Len(answer) >= 1 /\ answer[1] = "y"

\* answer = input().strip().lower(); answer in ("y", "yes")
confirmed(line) ==
    LET answer == lower(strip(line))
    IN  answer \in {<<"y">>, <<"y", "e", "s">>}

\* `if not args.yes:` of main: the prompt, the answer, "Aborted." and
\* return 1, or on to the token request.
MainConfirm(p) ==
    /\ pc[p] = "confirm"
    /\ pc' = [pc EXCEPT ![p] =
                IF hist.cli.yes THEN "idle"
                ELSE IF hist.cli.answer = EndOfInput THEN "crashed"
                ELSE IF confirmed(hist.cli.answer) THEN "idle"
                ELSE "aborted"]
    /\ UNCHANGED <<rq, tenant, loc, sink, ver, hist>>

InitPrompt ==
    /\ rq = RqIdle
    /\ tenant \in EnvTenantInits
    /\ pc = [p \in {Bootstrap} |-> "confirm"]
    /\ loc = [p \in {Bootstrap} |-> LocInit(MainArgs)]
    /\ sink = <<>>
    /\ ver = [pc |-> "off"]
    /\ \E yes \in BOOLEAN, answer \in Answers :
         hist = Patched(HistInit({Bootstrap}, tenant),
                        [cli |-> [yes |-> yes, answer |-> answer]])

NextPrompt ==
    \/ MainConfirm(Bootstrap)
    \/ MainStep(Bootstrap)
    \/ EnsureStep(Bootstrap)

SpecPrompt == InitPrompt /\ [][NextPrompt]_vars

\* The lines that say y or yes, in whatever letter case and with blanks
\* around or not.
SaysYes ==
    {<<"y">>, <<"Y">>, <<"y", "e", "s">>, <<"Y", "E", "S">>, <<"Y", "e", "s">>,
     <<" ", "y", "e", "s", " ">>}

\* C30: run without --yes and answered with a line that does not say y or
\* yes (or with no line at all), the bootstrap ends with exit code 1: it
\* never reaches its token request, sends no management API request,
\* invokes no sink, and the tenant stays as it was.
C30_DeclinedPromptTouchesNothing ==
    (~hist.cli.yes /\ hist.cli.answer \notin SaysYes)
      => /\ pc[Bootstrap] \in {"confirm", "aborted", "crashed"}
         /\ pc[Bootstrap] # "confirm"
              => /\ ExitCode(Bootstrap) = 1
                 /\ (pc[Bootstrap] = "crashed") <=> (hist.cli.answer = EndOfInput)
         /\ hist.methods[Bootstrap] = <<>>
         /\ ~hist.faults[Bootstrap]
         /\ sink = <<>>
         /\ tenant = hist.init

\* The operator typed "yep": the run printed "Aborted." and returned 1.
C30_Witness ==
    /\ ~hist.cli.yes
    /\ hist.cli.answer = <<"y", "e", "p">>
    /\ pc[Bootstrap] = "aborted"
    /\ tenant = hist.init

====
